---------------------------- MODULE Spec2Model ----------------------------
(***************************************************************************)
(* A model of the Narwhale game server (src/server.js; src/unnamed/part_000 *)
(* is an earlier copy of the same classes).                                 *)
(*                                                                          *)
(* Representation.  Time is in milliseconds (Date.now()).  Coordinates and  *)
(* velocities are the source's doubles cut to integers after every          *)
(* multiplication or division (TDiv truncates toward zero); angles are in   *)
(* degrees and atan2 answers to the nearest multiple of 45.  overDash is    *)
(* held in units of 1/5000 of a charge so that dt * 0.6 is exact.  A Player *)
(* object is a slot of `heap`; the registry and the rooms hold references,  *)
(* as the JavaScript Maps do.  A room's food list is held run-length        *)
(* encoded: <<[kind |-> k, n |-> 3]>> is three consecutive units of kind k. *)
(***************************************************************************)
EXTENDS Integers, Sequences, FiniteSets, TLC

VARIABLES
    now,           \* Date.now()
    lastTick,      \* NarwhaleGameServer.lastTick
    sockRoom,      \* socket.currentRoom, per connection
    sockOpen,      \* socket.readyState === OPEN, per connection
    players,       \* NarwhaleGameServer.players: socket.playerId -> Player
    roomPlayers,   \* GameRoom.players of every room, in insertion order
    foods,         \* GameRoom.foods of every room
    heap,          \* the Player objects
    playerInputs,  \* NarwhaleGameServer.validator.playerInputs
    timers,        \* callbacks scheduled by setTimeout in handleStart
    pc,            \* position of the game loop's callback
    dt,            \* the dt of the tick in progress (ms)
    alive,         \* the array `alive` of the checkCollisions call in progress
    sent,          \* frames handed to socket.send by the handler or tick running
    ncmd,          \* history: client commands handled so far, up to MaxCmds
    ev,            \* history: the last handler that ran and what it returned
    before,        \* history: the Player objects before the last step
    win,           \* history: the rate window each connection is in
    mark,          \* history: accepted commands since a connection's marked one
    lastOk         \* history: when each Player object last dashed

vars == <<now, lastTick, sockRoom, sockOpen, players, roomPlayers, foods, heap,
          playerInputs, timers, pc, dt, alive, sent, ncmd, ev, before, win, mark,
          lastOk>>

---------------------------------------------------------------------------
(* Bounds of the model *)

\* the clock stops here (ms after StartTime)
MaxClock == 4000
\* Player objects alive at once
MaxObjs == 3
\* client commands one run handles
MaxCmds == 7
\* calls past the rate ceiling that are still modelled
RateOver == 2

\* Date.now() when the server is constructed
StartTime == 10000

\* socket.playerId of the accepted connections
Conns == {1, 2}

---------------------------------------------------------------------------
(* Program constants *)

maxInputRate == 120
acceleration == 200
dashPower == 300
RespawnDelay == 3000
DashCooldown == 100
RateWindow == 1000
InvincibleSpawn == 2000
ChainLength == 11
FoodFill == 300
FoodFloor == 250
FoodRefill == 10
SnapshotFood == 100
SnapshotDelay == 80
\* overDash is counted in 1/OverDashOne of a charge; dashRegenRate 0.6/s is
\* DashRegenPerMs of these per millisecond
OverDashOne == 5000
DashRegenPerMs == 3

NoRoom == -1
NoRef == 0

\* ROOMS_CONFIG: the rooms "Small 1" (id 3) and "Narwhale Ball!" (id 5)
RoomOrder == <<3, 5>>
RoomIds == {RoomOrder[i] : i \in 1..Len(RoomOrder)}
RoomW(r) == IF r = 3 THEN 3840 ELSE 6400
RoomH(r) == 3840

---------------------------------------------------------------------------
(* Arithmetic *)

Abs(a) == IF a < 0 THEN -a ELSE a
Min(a, b) == IF a < b THEN a ELSE b
Max(a, b) == IF a > b THEN a ELSE b

\* a / b cut toward zero (b > 0)
TDiv(a, b) == IF a >= 0 THEN a \div b ELSE -((-a) \div b)

\* the float NaN, which readFloatLE returns for a payload of that bit pattern:
\* a number no coordinate of the model equals
NaN == -999999

\* Math.min and Math.max of JavaScript: NaN when an argument is NaN
MathMin(a, b) == IF a = NaN \/ b = NaN THEN NaN ELSE Min(a, b)
MathMax(a, b) == IF a = NaN \/ b = NaN THEN NaN ELSE Max(a, b)

RECURSIVE SqrtIter(_, _)
SqrtIter(n, x) ==
    LET y == (x + n \div x) \div 2
    IN  IF y >= x THEN x ELSE SqrtIter(n, y)

\* floor(Math.sqrt(n))
ISqrt(n) == IF n <= 0 THEN 0 ELSE SqrtIter(n, n)

\* Math.atan2(dy, dx) in degrees, to the nearest multiple of 45, in (-180, 180]
Atan2Deg(dy, dx) ==
    IF dx = 0 /\ dy = 0 THEN 0
    ELSE IF 1000 * Abs(dy) < 414 * Abs(dx) THEN (IF dx > 0 THEN 0 ELSE 180)
    ELSE IF 1000 * Abs(dx) < 414 * Abs(dy) THEN (IF dy > 0 THEN 90 ELSE -90)
    ELSE IF dy > 0 THEN (IF dx > 0 THEN 45 ELSE 135)
    ELSE (IF dx > 0 THEN -45 ELSE -135)

\* 1000 * Math.cos(a) for a multiple of 45 degrees
Cos1000(a) ==
    LET m == a % 360
    IN  CASE m = 0 -> 1000
          [] m = 45 -> 707
          [] m = 90 -> 0
          [] m = 135 -> -707
          [] m = 180 -> -1000
          [] m = 225 -> -707
          [] m = 270 -> 0
          [] m = 315 -> 707
          [] OTHER -> 0

Sin1000(a) == Cos1000(a - 90)

\* Vec2.distance, squared
Dist2(x1, y1, x2, y2) == (x1 - x2) * (x1 - x2) + (y1 - y2) * (y1 - y2)

---------------------------------------------------------------------------
(* NarwhalePart and Player *)

NewPart(x, y, rot) == [x |-> x, y |-> y, vx |-> 0, vy |-> 0, rot |-> rot, vt |-> 0]

\* Player.initializeParts: 11 parts trailing the constructor's position
initializeParts(x, y, angle) ==
    [i \in 1..ChainLength |-> NewPart(x - (i - 1) * 20, y, angle)]

\* new Player(id, socket, name); `angle` is the constructor's Math.random() draw.
\* targetX 0.001 is held as 0.
NewPlayer(id, angle) ==
    [ id |-> id, sock |-> id,
      size |-> 36, level |-> 1, score |-> 0, kills |-> 0, deaths |-> 0,
      pos |-> [x |-> 3200, y |-> 3200], vel |-> [x |-> 0, y |-> 0],
      angle |-> angle, speed |-> 0, maxSpeed |-> 150,
      parts |-> initializeParts(3200, 3200, angle), breakPoint |-> 11,
      maxDash |-> 5, curDash |-> 5, overDash |-> 0,
      invincibleDur |-> 0,
      isAlive |-> TRUE, isSpawned |-> FALSE, respawnTime |-> 0,
      currentRoom |-> NoRoom,
      targetX |-> 0, targetY |-> 0,
      lastDashTime |-> 0 ]

\* a heap slot no Map refers to
FreeSlot == NewPlayer(0, 0)

\* spawn that grants no invincibility window
spawn_NoShield(p, sx, sy) ==
    [p EXCEPT !.isAlive = TRUE, !.isSpawned = TRUE,
              !.pos = [x |-> sx, y |-> sy],
              !.vel = [x |-> 0, y |-> 0],
              !.curDash = p.maxDash,
              !.size = 36, !.level = 1,
              !.parts = [i \in 1..Len(p.parts) |->
                           [p.parts[i] EXCEPT !.x = sx - (i - 1) * 20, !.y = sy,
                                              !.vx = 0, !.vy = 0, !.rot = p.angle]]]

\* spawn that starts the player again from score 0
spawn_ResetsScore(p, sx, sy) ==
    [p EXCEPT !.isAlive = TRUE, !.isSpawned = TRUE,
              !.pos = [x |-> sx, y |-> sy],
              !.vel = [x |-> 0, y |-> 0],
              !.invincibleDur = InvincibleSpawn,
              !.curDash = p.maxDash,
              !.size = 36, !.level = 1, !.score = 0,
              !.parts = [i \in 1..Len(p.parts) |->
                           [p.parts[i] EXCEPT !.x = sx - (i - 1) * 20, !.y = sy,
                                              !.vx = 0, !.vy = 0, !.rot = p.angle]]]

\* Player.spawn(room); (sx, sy) is the position Math.random() draws
spawn(p, sx, sy) ==
    [p EXCEPT !.isAlive = TRUE, !.isSpawned = TRUE,
              !.pos = [x |-> sx, y |-> sy],
              !.vel = [x |-> 0, y |-> 0],
              !.invincibleDur = InvincibleSpawn,
              !.curDash = p.maxDash,
              !.size = 36, !.level = 1,
              !.parts = [i \in 1..Len(p.parts) |->
                           [p.parts[i] EXCEPT !.x = sx - (i - 1) * 20, !.y = sy,
                                              !.vx = 0, !.vy = 0, !.rot = p.angle]]]

\* Player.processMovement(dt); with a NaN target dist is NaN and dist > 10 is false
processMovement(p, d) ==
    LET dx == p.targetX - p.pos.x
        dy == p.targetY - p.pos.y
        d2 == dx * dx + dy * dy
        dist == ISqrt(d2)
        seek == p.targetX # NaN /\ p.targetY # NaN /\ d2 > 100
        acc == TDiv(acceleration * d, 1000)
        ax == IF seek THEN p.vel.x + TDiv(dx * acc, dist) ELSE p.vel.x
        ay == IF seek THEN p.vel.y + TDiv(dy * acc, dist) ELSE p.vel.y
        sp == ISqrt(ax * ax + ay * ay)
        over == seek /\ ax * ax + ay * ay > p.maxSpeed * p.maxSpeed
        cx == IF over THEN TDiv(ax * p.maxSpeed, sp) ELSE ax
        cy == IF over THEN TDiv(ay * p.maxSpeed, sp) ELSE ay
        fx == TDiv(cx * 95, 100)
        fy == TDiv(cy * 95, 100)
    IN  [p EXCEPT !.vel = [x |-> fx, y |-> fy],
                  !.angle = IF seek THEN Atan2Deg(dy, dx) ELSE p.angle,
                  !.pos = [x |-> p.pos.x + TDiv(fx * d, 1000),
                           y |-> p.pos.y + TDiv(fy * d, 1000)],
                  !.speed = ISqrt(fx * fx + fy * fy)]

\* one pass of the loop of Player.updateParts: part i (0-based, as in the source)
\* given the parts already moved
followPart(part, prev, size, isBreak, d) ==
    IF ~isBreak
    THEN LET seg == 25 + TDiv(size, 5)
             tx == prev.x - TDiv(Cos1000(prev.rot) * seg, 1000)
             ty == prev.y - TDiv(Sin1000(prev.rot) * seg, 1000)
             nx == part.x + TDiv((tx - part.x) * 2, 5)
             ny == part.y + TDiv((ty - part.y) * 2, 5)
         IN  [part EXCEPT !.x = nx, !.y = ny,
                          !.rot = Atan2Deg(prev.y - ny, prev.x - nx)]
    ELSE [part EXCEPT !.x = part.x + TDiv(part.vx * d, 1000),
                      !.y = part.y + TDiv(part.vy * d, 1000),
                      !.rot = part.rot + TDiv(part.vt * d, 1000),
                      !.vx = TDiv(part.vx * 98, 100),
                      !.vy = TDiv(part.vy * 98, 100),
                      !.vt = TDiv(part.vt * 95, 100)]

RECURSIVE followFrom(_, _, _, _, _)
followFrom(parts, i, size, breakPoint, d) ==
    IF i > Len(parts) - 1 THEN parts
    ELSE followFrom([parts EXCEPT ![i + 1] =
                        followPart(parts[i + 1], parts[i], size, i = breakPoint, d)],
                    i + 1, size, breakPoint, d)

\* Player.updateParts(dt)
updateParts(p, d) ==
    LET head == [p.parts[1] EXCEPT !.x = p.pos.x, !.y = p.pos.y, !.rot = p.angle,
                                   !.vx = p.vel.x, !.vy = p.vel.y]
    IN  [p EXCEPT !.parts = followFrom([p.parts EXCEPT ![1] = head], 1,
                                       p.size, p.breakPoint, d)]

\* clampToWorld that keeps the player off the low walls only
clampToWorld_LowOnly(p) ==
    IF p.currentRoom \notin RoomIds THEN p
    ELSE [p EXCEPT !.pos = [x |-> Max(100, p.pos.x), y |-> Max(100, p.pos.y)]]

\* Player.clampToWorld()
clampToWorld(p) ==
    IF p.currentRoom \notin RoomIds THEN p
    ELSE [p EXCEPT !.pos = [x |-> Max(100, Min(RoomW(p.currentRoom) - 100, p.pos.x)),
                            y |-> Max(100, Min(RoomH(p.currentRoom) - 100, p.pos.y))]]

\* Player.updateSize()
updateSize(p) ==
    LET lv == (p.score \div 100) + 1
    IN  [p EXCEPT !.level = lv,
                  !.size = 36 + (lv - 1) * 3,
                  !.maxSpeed = Max(80, 150 - (lv - 1) * 5)]

\* a dash regeneration that does not look at maxDash
regenDash_Unbounded(p, d) ==
    LET acc == p.overDash + d * DashRegenPerMs
    IN  IF acc >= OverDashOne
        THEN [p EXCEPT !.curDash = p.curDash + 1, !.overDash = 0]
        ELSE [p EXCEPT !.overDash = acc]

\* a dash regeneration that carries the excess of the accumulator over
regenDash_CarryOver(p, d) ==
    IF p.curDash < p.maxDash
    THEN LET acc == p.overDash + d * DashRegenPerMs
         IN  IF acc >= OverDashOne
             THEN [p EXCEPT !.curDash = Min(p.maxDash, p.curDash + 1),
                            !.overDash = acc - OverDashOne]
             ELSE [p EXCEPT !.overDash = acc]
    ELSE p

\* the dash regeneration of Player.update
regenDash(p, d) ==
    IF p.curDash < p.maxDash
    THEN LET acc == p.overDash + d * DashRegenPerMs
         IN  IF acc >= OverDashOne
             THEN [p EXCEPT !.curDash = Min(p.maxDash, p.curDash + 1), !.overDash = 0]
             ELSE [p EXCEPT !.overDash = acc]
    ELSE p

\* update that respawns a dead player without looking at the clock
update_NoWait(p, d, t, sx, sy) ==
    IF ~p.isAlive
    THEN IF p.currentRoom \in RoomIds THEN spawn(p, sx, sy) ELSE p
    ELSE LET p1 == [p EXCEPT !.invincibleDur = Max(0, p.invincibleDur - d)]
             p2 == regenDash(p1, d)
         IN  updateSize(clampToWorld(updateParts(processMovement(p2, d), d)))

\* update that waits another 3000 ms after respawnTime
update_LateRespawn(p, d, t, sx, sy) ==
    IF ~p.isAlive
    THEN IF t > p.respawnTime + RespawnDelay /\ p.currentRoom \in RoomIds
         THEN spawn(p, sx, sy)
         ELSE p
    ELSE LET p1 == [p EXCEPT !.invincibleDur = Max(0, p.invincibleDur - d)]
             p2 == regenDash(p1, d)
         IN  updateSize(clampToWorld(updateParts(processMovement(p2, d), d)))

\* update that keeps the timers and the physics of a DEAD player running
update_DeadDrift(p, d, t, sx, sy) ==
    IF ~p.isAlive /\ t > p.respawnTime /\ p.currentRoom \in RoomIds
    THEN spawn(p, sx, sy)
    ELSE LET p1 == [p EXCEPT !.invincibleDur = Max(0, p.invincibleDur - d)]
             p2 == regenDash(p1, d)
         IN  updateSize(clampToWorld(updateParts(processMovement(p2, d), d)))

\* Player.update(dt, validator) at time t; (sx, sy) is the draw of a respawn
update(p, d, t, sx, sy) ==
    IF ~p.isAlive
    THEN IF t > p.respawnTime /\ p.currentRoom \in RoomIds
         THEN spawn(p, sx, sy)
         ELSE p
    ELSE LET p1 == [p EXCEPT !.invincibleDur = Max(0, p.invincibleDur - d)]
             p2 == regenDash(p1, d)
         IN  updateSize(clampToWorld(updateParts(processMovement(p2, d), d)))

\* setTarget that puts the player on the target
setTarget_Jump(p, x, y) ==
    IF p.currentRoom \notin RoomIds THEN p
    ELSE [p EXCEPT !.targetX = MathMax(0, MathMin(RoomW(p.currentRoom), x)),
                   !.targetY = MathMax(0, MathMin(RoomH(p.currentRoom), y)),
                   !.pos = [x |-> MathMax(0, MathMin(RoomW(p.currentRoom), x)),
                            y |-> MathMax(0, MathMin(RoomH(p.currentRoom), y))]]

\* Player.setTarget(x, y, validator)
setTarget(p, x, y) ==
    IF p.currentRoom \notin RoomIds THEN p
    ELSE [p EXCEPT !.targetX = MathMax(0, MathMin(RoomW(p.currentRoom), x)),
                   !.targetY = MathMax(0, MathMin(RoomH(p.currentRoom), y))]

\* validateDash without the 100 ms rule
validateDash_NoCooldown(p, t) == ~(p.curDash <= 0)

\* InputValidator.validateDash(player) at time t
validateDash(p, t) ==
    /\ ~(p.curDash <= 0)
    /\ ~(p.lastDashTime # 0 /\ t - p.lastDashTime < DashCooldown)

\* what Player.useDash(validator) returns at time t
useDashOk(p, t) == validateDash(p, t) /\ p.curDash > 0

\* useDash that stamps lastDashTime on a refused attempt too
useDash_StampsRefusal(p, t) ==
    IF useDashOk(p, t)
    THEN [p EXCEPT !.curDash = p.curDash - 1,
                   !.lastDashTime = t,
                   !.vel = [x |-> p.vel.x + TDiv(Cos1000(p.angle) * dashPower, 1000),
                            y |-> p.vel.y + TDiv(Sin1000(p.angle) * dashPower, 1000)]]
    ELSE [p EXCEPT !.lastDashTime = t]

\* Player.useDash(validator) at time t: the player it leaves
useDash(p, t) ==
    IF useDashOk(p, t)
    THEN [p EXCEPT !.curDash = p.curDash - 1,
                   !.lastDashTime = t,
                   !.vel = [x |-> p.vel.x + TDiv(Cos1000(p.angle) * dashPower, 1000),
                            y |-> p.vel.y + TDiv(Sin1000(p.angle) * dashPower, 1000)]]
    ELSE p

\* Player.die() at time t (the RIP frame is sent by the caller's ripFrames)
die(p, t) ==
    [p EXCEPT !.isAlive = FALSE, !.isSpawned = FALSE,
              !.deaths = p.deaths + 1,
              !.respawnTime = t + RespawnDelay]

---------------------------------------------------------------------------
(* Food and GameRoom *)

\* The (x, y, value) triples the model lets Math.random() draw for a Food;
\* idTop is bit 31 of its id, Date.now() + Math.floor(Math.random() * 1000)
FoodKinds ==
    << [x |-> 200, y |-> 200, value |-> 3, idTop |-> 0],
       [x |-> 240, y |-> 200, value |-> 1, idTop |-> 0],
       [x |-> 3000, y |-> 3000, value |-> 1, idTop |-> 0],
       [x |-> 3000, y |-> 3000, value |-> 3, idTop |-> 0],
       [x |-> 3000, y |-> 3000, value |-> 1, idTop |-> 1] >>

\* Food.size
FoodSize(k) == IF FoodKinds[k].value > 1 THEN 8 ELSE 4

\* foods.length
FoodCount(fl) ==
    LET RECURSIVE Sum(_)
        Sum(i) == IF i = 0 THEN 0 ELSE fl[i].n + Sum(i - 1)
    IN  Sum(Len(fl))

\* foods.push(new Food(...)), n times with the same draw
FoodPush(fl, k, n) ==
    IF n = 0 THEN fl
    ELSE IF Len(fl) > 0 /\ fl[Len(fl)].kind = k
         THEN [fl EXCEPT ![Len(fl)].n = fl[Len(fl)].n + n]
         ELSE Append(fl, [kind |-> k, n |-> n])

RECURSIVE FoodConcat(_, _)
FoodConcat(fl, more) ==
    IF more = <<>> THEN fl
    ELSE FoodConcat(FoodPush(fl, more[1].kind, more[1].n), Tail(more))

\* Math.random() * (extent - 400) + 200 of Player.spawn; Math.random() is
\* u / RandomUnit with u in 0..RandomUnit-1, so it is never 1
RandomUnit == 86
randomCoord(u, extent) == TDiv(u * (extent - 400), RandomUnit) + 200

\* the position the players of a room are spawned at, and the draws of one
\* sweep or refill: which consumed units are replaced (Math.random() < 0.7) and
\* the kind every new unit of that sweep gets
SpawnSpots == {<<randomCoord(u, RoomW(RoomOrder[1])), randomCoord(0, RoomH(RoomOrder[1]))>> : u \in {0, 1}}
FoodDraws ==
    [keep : {"none", "first", "all"}, kind : {3}] \cup [keep : {"first"}, kind : {1}]

\* whether player p reaches a food unit of kind k (GameRoom.checkCollisions)
reaches(p, k) ==
    LET f == FoodKinds[k]
        reach == p.size + 2 * FoodSize(k)
    IN  4 * Dist2(p.pos.x, p.pos.y, f.x, f.y) < reach * reach

\* the food loop scoring 10 for every unit, whatever its value
eatFood_FlatScore(fl, p, draw, done) ==
    LET eaten == SelectSeq(fl, LAMBDA run : reaches(p, run.kind))
        left  == SelectSeq(fl, LAMBDA run : ~reaches(p, run.kind))
        n     == FoodCount(eaten)
        back  == CASE draw.keep = "none" -> 0
                   [] draw.keep = "all" -> n
                   [] OTHER -> IF done = 0 /\ n > 0 THEN 1 ELSE 0
    IN  [foods |-> FoodPush(FoodConcat(<<>>, left), draw.kind, back),
         gain |-> n * 10,
         n |-> n]

\* the food loop of GameRoom.checkCollisions for one player: the list it leaves
\* and the score it adds; `done` counts the units the sweep has consumed so far
eatFood(fl, p, draw, done) ==
    LET eaten == SelectSeq(fl, LAMBDA run : reaches(p, run.kind))
        left  == SelectSeq(fl, LAMBDA run : ~reaches(p, run.kind))
        n     == FoodCount(eaten)
        RECURSIVE Gain(_)
        Gain(i) == IF i = 0 THEN 0
                   ELSE eaten[i].n * FoodKinds[eaten[i].kind].value * 10 + Gain(i - 1)
        back  == CASE draw.keep = "none" -> 0
                   [] draw.keep = "all" -> n
                   [] OTHER -> IF done = 0 /\ n > 0 THEN 1 ELSE 0
    IN  [foods |-> FoodPush(FoodConcat(<<>>, left), draw.kind, back),
         gain |-> Gain(Len(eaten)),
         n |-> n]

\* the RIP frame of Player.die(), when the socket is open
NoBody == [room |-> NoRoom, fish |-> <<>>, food |-> 0, units |-> <<>>]
Frame(c, op, open, body) == [to |-> c, op |-> op, open |-> open[c], body |-> body]

\* die() that sends nothing
ripFrames_Never(p, open) == <<>>

ripFrames(p, open) ==
    IF open[p.sock] THEN << Frame(p.sock, 34, open, NoBody) >> ELSE <<>>

\* what Player.takeDamage returns for the victim p
takeDamageOk(p) == ~(p.invincibleDur > 0)

\* takeDamage that does not look at the invincibility timer
takeDamage_IgnoresShield(st, v, a, t, open) ==
    LET h1 == IF a # v
              THEN [st.heap EXCEPT ![a].kills = @ + 1,
                                   ![a].score = @ + 100 + st.heap[v].level * 20]
              ELSE st.heap
    IN  [heap |-> [h1 EXCEPT ![v] = die(h1[v], t)],
         sent |-> st.sent \o ripFrames(h1[v], open)]

\* takeDamage that computes the bonus from the attacker's level
takeDamage_AttackerLevel(st, v, a, t, open) ==
    IF st.heap[v].invincibleDur > 0 THEN st
    ELSE LET h1 == IF a # v
                   THEN [st.heap EXCEPT ![a].kills = @ + 1,
                                        ![a].score = @ + 100 + st.heap[a].level * 20]
                   ELSE st.heap
         IN  [heap |-> [h1 EXCEPT ![v] = die(h1[v], t)],
              sent |-> st.sent \o ripFrames(h1[v], open)]

\* Player.takeDamage(amount, attacker) at time t on the objects st.heap;
\* v is the victim's reference, a the attacker's
takeDamage(st, v, a, t, open) ==
    IF st.heap[v].invincibleDur > 0 THEN st
    ELSE LET h1 == IF a # v
                   THEN [st.heap EXCEPT ![a].kills = @ + 1,
                                        ![a].score = @ + 100 + st.heap[v].level * 20]
                   ELSE st.heap
         IN  [heap |-> [h1 EXCEPT ![v] = die(h1[v], t)],
              sent |-> st.sent \o ripFrames(h1[v], open)]

\* a pair loop body in which any difference of size decides
pairStep_AnyGap(st, a, b, t, open) ==
    LET p1 == st.heap[a]
        p2 == st.heap[b]
        sum == p1.size + p2.size
        diff == p1.size - p2.size
    IN  IF 25 * Dist2(p1.pos.x, p1.pos.y, p2.pos.x, p2.pos.y) < 9 * sum * sum
        THEN IF diff > 0 THEN takeDamage(st, b, a, t, open)
             ELSE IF diff < 0 THEN takeDamage(st, a, b, t, open)
             ELSE st
        ELSE st

\* the body of the pair loop of GameRoom.checkCollisions for p1 = a, p2 = b
pairStep(st, a, b, t, open) ==
    LET p1 == st.heap[a]
        p2 == st.heap[b]
        sum == p1.size + p2.size
        diff == p1.size - p2.size
    IN  IF 25 * Dist2(p1.pos.x, p1.pos.y, p2.pos.x, p2.pos.y) < 9 * sum * sum
        THEN IF diff > 10 THEN takeDamage(st, b, a, t, open)
             ELSE IF diff < -10 THEN takeDamage(st, a, b, t, open)
             ELSE st
        ELSE st

\* the players the sweeps of checkCollisions run over
aliveOf(h, rp) ==
    LET refs == [i \in 1..Len(rp) |-> rp[i].ref]
    IN  SelectSeq(refs, LAMBDA x : h[x].isAlive)

RECURSIVE pairLoop(_, _, _, _, _, _)
pairLoop(st, arr, i, j, t, open) ==
    IF i > Len(arr) THEN st
    ELSE IF j > Len(arr) THEN pairLoop(st, arr, i + 1, i + 2, t, open)
    ELSE pairLoop(pairStep(st, arr[i], arr[j], t, open), arr, i, j + 1, t, open)

\* the player-vs-player loop of GameRoom.checkCollisions
pairSweep(st, arr, t, open) == pairLoop(st, arr, 1, 2, t, open)

RECURSIVE foodLoop(_, _, _, _, _)
foodLoop(fs, arr, i, draw, done) ==
    IF i > Len(arr) THEN fs
    ELSE LET e == eatFood(fs.foods, fs.heap[arr[i]], draw, done)
         IN  foodLoop([heap |-> [fs.heap EXCEPT ![arr[i]].score = @ + e.gain],
                       foods |-> e.foods],
                      arr, i + 1, draw, done + e.n)

\* the player-vs-food loop of GameRoom.checkCollisions
foodSweep(h, fl, arr, draw) ==
    foodLoop([heap |-> h, foods |-> fl], arr, 1, draw, 0)

---------------------------------------------------------------------------
(* InputValidator.validateInputRate and PacketEncoder *)

NoEntry == [has |-> FALSE, count |-> 0, lastReset |-> 0]

\* validateInputRate with a window that already ends at 1000 ms
validateInputRate_Inclusive(d, t) ==
    LET d0 == IF ~d.has THEN [has |-> TRUE, count |-> 0, lastReset |-> t] ELSE d
        d1 == IF t - d0.lastReset >= RateWindow
              THEN [d0 EXCEPT !.count = 0, !.lastReset = t]
              ELSE d0
    IN  [d1 EXCEPT !.count = @ + 1]

\* InputValidator.validateInputRate(playerId) at time t: the entry of the
\* connection it leaves in playerInputs
validateInputRate(d, t) ==
    LET d0 == IF ~d.has THEN [has |-> TRUE, count |-> 0, lastReset |-> t] ELSE d
        d1 == IF t - d0.lastReset > RateWindow
              THEN [d0 EXCEPT !.count = 0, !.lastReset = t]
              ELSE d0
    IN  [d1 EXCEPT !.count = @ + 1]

\* what validateInputRate returns
rateOk(d, t) == validateInputRate(d, t).count <= maxInputRate

\* room.foods.slice(0, n)
RECURSIVE FoodSlice(_, _)
FoodSlice(fl, n) ==
    IF n <= 0 \/ fl = <<>> THEN <<>>
    ELSE IF fl[1].n >= n THEN << [kind |-> fl[1].kind, n |-> n] >>
         ELSE << fl[1] >> \o FoodSlice(Tail(fl), n - fl[1].n)

\* _encodeFoodElement: food.id & 0xFFFFFFFF is a signed 32-bit value, negative
\* when bit 31 of the id is set, and writeUInt32LE throws a RangeError for it
encodeFoodThrows(k) == FoodKinds[k].idTop = 1

\* encodeSetElements(room) throws: one of the units it encodes makes
\* _encodeFoodElement throw
encodeThrows(r, fl) ==
    LET units == FoodSlice(fl[r], SnapshotFood)
    IN  \E j \in 1..Len(units) : encodeFoodThrows(units[j].kind)

\* encodeSetElements with a FISH record for every player of the Map
encodeSetElements_All(r, h, rp, fl) ==
    [room |-> r,
     fish |-> [i \in 1..Len(rp[r]) |-> h[rp[r][i].ref].id],
     food |-> Min(SnapshotFood, FoodCount(fl[r])),
     units |-> FoodSlice(fl[r], SnapshotFood)]

\* PacketEncoder.encodeSetElements(room): the players the frame has a FISH
\* record for, and the food units it has a FOOD record for, in their order
encodeSetElements(r, h, rp, fl) ==
    LET refs == [i \in 1..Len(rp[r]) |-> rp[r][i].ref]
        shown == SelectSeq(refs, LAMBDA x : h[x].isAlive /\ h[x].isSpawned)
    IN  [room |-> r,
         fish |-> [i \in 1..Len(shown) |-> h[shown[i]].id],
         food |-> Min(SnapshotFood, FoodCount(fl[r])),
         units |-> FoodSlice(fl[r], SnapshotFood)]

---------------------------------------------------------------------------
(* The Maps *)

Refs == 1..MaxObjs

\* Map.get(id) on a room's player Map: the reference or NoRef
roomGet(rp, id) ==
    IF \E i \in 1..Len(rp) : rp[i].id = id
    THEN rp[CHOOSE i \in 1..Len(rp) : rp[i].id = id].ref
    ELSE NoRef

\* Map.set(id, ref): an existing key keeps its place
roomSet(rp, id, ref) ==
    IF \E i \in 1..Len(rp) : rp[i].id = id
    THEN [i \in 1..Len(rp) |-> IF rp[i].id = id THEN [id |-> id, ref |-> ref] ELSE rp[i]]
    ELSE Append(rp, [id |-> id, ref |-> ref])

\* GameRoom.removePlayer(playerId)
removePlayer(rp, id) == SelectSeq(rp, LAMBDA e : e.id # id)

\* the objects some Map still holds
Held(pl, rps) ==
    {pl[c] : c \in Conns} \cup
    UNION {{rps[r][i].ref : i \in 1..Len(rps[r])} : r \in RoomIds}

\* objects no Map holds are garbage: their slots are cleared
Collect(h, pl, rps) == [x \in Refs |-> IF x \in Held(pl, rps) THEN h[x] ELSE FreeSlot]
CollectTimes(lo, pl, rps) == [x \in Refs |-> IF x \in Held(pl, rps) THEN lo[x] ELSE 0]

\* handleDisconnection with a fallback: a connection without a registered
\* player is removed from the room its socket joined
handleDisconnection_Fallback(pl, rps, h, c) ==
    LET x == pl[c]
        r == IF x # NoRef THEN h[x].currentRoom ELSE sockRoom[c]
    IN  [players |-> [pl EXCEPT ![c] = NoRef],
         rooms |-> IF r \in RoomIds
                   THEN [rps EXCEPT ![r] = removePlayer(rps[r], c)]
                   ELSE rps]

\* NarwhaleGameServer.handleDisconnection(socket): the registry and the rooms
\* it leaves
handleDisconnection(pl, rps, h, c) ==
    LET x == pl[c]
        r == IF x # NoRef THEN h[x].currentRoom ELSE NoRoom
    IN  [players |-> [pl EXCEPT ![c] = NoRef],
         rooms |-> IF r \in RoomIds
                   THEN [rps EXCEPT ![r] = removePlayer(rps[r], c)]
                   ELSE rps]

---------------------------------------------------------------------------
(* The server: state after construction *)

Idle == [ph |-> "idle", k |-> 0]

\* what a handler that is not a command, or a command before its checks, leaves
\* in the history
NoEv(op, c) == [op |-> op, conn |-> c, rate |-> "none", dash |-> "none",
                ref |-> NoRef, had |-> FALSE, dup |-> "no", changed |-> FALSE,
                since |-> -1]

\* GameRoom constructor: generateFood(300), with these draws
InitialFood == << [kind |-> 1, n |-> 1], [kind |-> 2, n |-> 1],
                  [kind |-> 3, n |-> FoodFill - 2] >>

InitHistory ==
    /\ ev = NoEv("init", 0)
    /\ before = heap
    /\ win = [c \in Conns |-> [start |-> 0, calls |-> 0]]
    /\ mark = [c \in Conns |-> <<>>]
    /\ lastOk = [x \in Refs |-> 0]

\* new NarwhaleGameServer(), with the connections of Conns accepted
Init ==
    /\ now = StartTime
    /\ lastTick = StartTime
    /\ sockRoom = [c \in Conns |-> NoRoom]
    /\ sockOpen = [c \in Conns |-> TRUE]
    /\ players = [c \in Conns |-> NoRef]
    /\ roomPlayers = [r \in RoomIds |-> <<>>]
    /\ foods = [r \in RoomIds |-> InitialFood]
    /\ heap = [x \in Refs |-> FreeSlot]
    /\ playerInputs = [c \in Conns |-> NoEntry]
    /\ timers = [c \in Conns |-> <<>>]
    /\ pc = Idle
    /\ dt = 0
    /\ alive = <<>>
    /\ sent = <<>>
    /\ ncmd = 0
    /\ InitHistory

---------------------------------------------------------------------------
(* Time and the handlers of client messages *)

\* the wall clock moves on by d ms between two callbacks
AdvanceClock(d) ==
    /\ pc = Idle
    /\ now' = now + d
    /\ ev' = NoEv("clock", 0)
    /\ before' = heap
    /\ UNCHANGED <<lastTick, sockRoom, sockOpen, players, roomPlayers, foods, heap,
                   playerInputs, timers, pc, dt, alive, sent, ncmd, win, mark, lastOk>>

\* a message of connection c reaches handleMessage
Receives(c) == pc = Idle /\ sockOpen[c]

\* handleJoin(socket, buf) with roomId read from the payload
HandleJoin(c, roomId) ==
    /\ Receives(c)
    /\ ncmd' = Min(ncmd + 1, MaxCmds)
    /\ IF roomId \in RoomIds
       THEN /\ sockRoom' = [sockRoom EXCEPT ![c] = roomId]
            /\ sent' = << Frame(c, 16, sockOpen, NoBody) >>
       ELSE /\ sent' = <<>>
            /\ UNCHANGED sockRoom
    /\ ev' = NoEv("JOIN", c)
    /\ before' = heap
    /\ UNCHANGED <<now, lastTick, sockOpen, players, roomPlayers, foods, heap,
                   playerInputs, timers, pc, dt, alive, win, mark, lastOk>>

\* handleStart(socket, buf); angle and spot are the draws of new Player and spawn
HandleStart(c, angle, spot) ==
    /\ Receives(c)
    /\ Refs \ Held(players, roomPlayers) # {}
    /\ LET x  == CHOOSE y \in Refs \ Held(players, roomPlayers) :
                     \A z \in Refs \ Held(players, roomPlayers) : y <= z
           r  == sockRoom[c]
           p0 == NewPlayer(c, angle)
           p1 == IF r \in RoomIds
                 THEN spawn([p0 EXCEPT !.currentRoom = r], spot[1], spot[2])
                 ELSE p0
           pl == [players EXCEPT ![c] = x]
           rps == IF r \in RoomIds
                  THEN [roomPlayers EXCEPT ![r] = roomSet(roomPlayers[r], c, x)]
                  ELSE roomPlayers
       IN  /\ players' = pl
           /\ roomPlayers' = rps
           /\ heap' = Collect([heap EXCEPT ![x] = p1], pl, rps)
           /\ lastOk' = CollectTimes([lastOk EXCEPT ![x] = 0], pl, rps)
           /\ ev' = [NoEv("START", c) EXCEPT !.ref = x]
    /\ sent' = << Frame(c, 18, sockOpen, NoBody) >>
    /\ timers' = [timers EXCEPT ![c] = Append(@, now + SnapshotDelay)]
    /\ ncmd' = Min(ncmd + 1, MaxCmds)
    /\ before' = heap
    /\ UNCHANGED <<now, lastTick, sockRoom, sockOpen, foods, playerInputs, pc, dt,
                   alive, win, mark>>

\* the process after an exception no handler caught: no callback runs again
Down == [ph |-> "down", k |-> 0]

\* the callback handleStart scheduled with setTimeout; an exception of
\* encodeSetElements is caught by nothing
SnapshotTimer(c) ==
    /\ pc = Idle
    /\ timers[c] # <<>>
    /\ timers[c][1] <= now
    /\ timers' = [timers EXCEPT ![c] = Tail(@)]
    /\ IF sockRoom[c] \in RoomIds /\ encodeThrows(sockRoom[c], foods)
       THEN /\ sent' = <<>>
            /\ pc' = Down
       ELSE /\ sent' = IF sockRoom[c] \in RoomIds
                       THEN << Frame(c, 48, sockOpen,
                                     encodeSetElements(sockRoom[c], heap, roomPlayers, foods)) >>
                       ELSE <<>>
            /\ pc' = pc
    /\ ev' = NoEv("timer", c)
    /\ before' = heap
    /\ UNCHANGED <<now, lastTick, sockRoom, sockOpen, players, roomPlayers, foods, heap,
                   playerInputs, dt, alive, ncmd, win, mark, lastOk>>

\* the history of one validateInputRate call of connection c
RateHistory(c, ok) ==
    /\ win' = [win EXCEPT ![c] =
                 IF @.start = 0 \/ now - @.start > RateWindow
                 THEN [start |-> now, calls |-> 1]
                 ELSE [@ EXCEPT !.calls = @ + 1]]
    /\ mark' = [mark EXCEPT ![c] =
                 LET recent == SelectSeq(@, LAMBDA m : now - m.t < RateWindow)
                     k == Len(recent)
                 IN  IF ~ok THEN recent
                     ELSE IF k > 0 /\ recent[k].t = now
                          THEN [recent EXCEPT ![k].n = @ + 1]
                          ELSE Append(recent, [t |-> now, n |-> 1])]

\* a call of validateInputRate is modelled up to RateOver calls past the ceiling
RateModelled(c) == validateInputRate(playerInputs[c], now).count <= maxInputRate + RateOver

\* handleUpdateTarget(socket, buf) with the payload's x and y
HandleUpdateTarget(c, x, y) ==
    /\ Receives(c)
    /\ RateModelled(c)
    /\ LET ok == rateOk(playerInputs[c], now)
           ref == players[c]
       IN  /\ playerInputs' = [playerInputs EXCEPT ![c] = validateInputRate(@, now)]
           /\ RateHistory(c, ok)
           /\ heap' = IF ok /\ ref # NoRef
                      THEN [heap EXCEPT ![ref] = setTarget(@, x, y)]
                      ELSE heap
           /\ ev' = [NoEv("UPDATE_TARGET", c) EXCEPT
                       !.rate = IF ok THEN "ok" ELSE "over",
                       !.ref = IF ok THEN ref ELSE NoRef]
    /\ sent' = <<>>
    /\ ncmd' = Min(ncmd + 1, MaxCmds)
    /\ before' = heap
    /\ UNCHANGED <<now, lastTick, sockRoom, sockOpen, players, roomPlayers, foods,
                   timers, pc, dt, alive, lastOk>>

\* handleInput(socket, buf) with the payload's control byte; dashBit is
\* control & 0x10
HandleInput(c, dashBit) ==
    /\ Receives(c)
    /\ RateModelled(c)
    /\ LET ok == rateOk(playerInputs[c], now)
           ref == players[c]
           try == ok /\ ref # NoRef /\ dashBit
           res == try /\ useDashOk(heap[ref], now)
       IN  /\ playerInputs' = [playerInputs EXCEPT ![c] = validateInputRate(@, now)]
           /\ RateHistory(c, ok)
           /\ heap' = IF try THEN [heap EXCEPT ![ref] = useDash(@, now)] ELSE heap
           /\ lastOk' = IF res THEN [lastOk EXCEPT ![ref] = now] ELSE lastOk
           /\ ev' = [NoEv("INPUT", c) EXCEPT
                       !.rate = IF ok THEN "ok" ELSE "over",
                       !.dash = IF ~try THEN "none" ELSE IF res THEN "ok" ELSE "refused",
                       !.ref = IF ok THEN ref ELSE NoRef,
                       !.since = IF try /\ lastOk[ref] # 0 THEN now - lastOk[ref] ELSE -1]
    /\ sent' = <<>>
    /\ ncmd' = Min(ncmd + 1, MaxCmds)
    /\ before' = heap
    /\ UNCHANGED <<now, lastTick, sockRoom, sockOpen, players, roomPlayers, foods,
                   timers, pc, dt, alive>>

\* the opcodes handleMessage has a case for
Opcodes == {16, 17, 18, 19, 32, 37, 38}

\* the length a handler asks of the message before it reads the payload
minLength(op) ==
    CASE op = 16 -> 5
      [] op = 18 -> 9
      [] op = 32 -> 9
      [] op = 38 -> 2
      [] op = 37 -> 5
      [] OTHER -> 1

\* the bytes of the message a handler reads: the end of its last read
payloadEnd(op) ==
    CASE op = 16 -> 1 + 4
      [] op = 18 -> 2 + 4
      [] op = 32 -> 5 + 4
      [] op = 38 -> 1 + 1
      [] op = 37 -> 1 + 4
      [] OTHER -> 1

\* handlers without a length test
accepted_AnyLength(op, len) == len > 0 /\ op \in Opcodes

\* handleMessage(socket, data): whether a message of len bytes with opcode op
\* gets past the switch and the length test of its handler
accepted(op, len) == len > 0 /\ op \in Opcodes /\ len >= minLength(op)

\* handleMessage for a message that is not accepted: an empty message, the
\* default case of the switch, or a handler that returns at its length test
HandleDropped(c, op, len) ==
    /\ Receives(c)
    /\ ~accepted(op, len)
    /\ sent' = <<>>
    /\ ncmd' = Min(ncmd + 1, MaxCmds)
    /\ ev' = NoEv("dropped", c)
    /\ before' = heap
    /\ UNCHANGED <<now, lastTick, sockRoom, sockOpen, players, roomPlayers, foods, heap,
                   playerInputs, timers, pc, dt, alive, win, mark, lastOk>>

\* the handlers that call handleDisconnection
DisconnectOps == {"LEAVE", "error", "close"}

\* what handleDisconnection(socket) does to the state, whoever calls it
Disconnects(c, op) ==
    /\ LET d == handleDisconnection(players, roomPlayers, heap, c)
       IN  /\ players' = d.players
           /\ roomPlayers' = d.rooms
           /\ heap' = Collect(heap, d.players, d.rooms)
           /\ lastOk' = CollectTimes(lastOk, d.players, d.rooms)
    /\ ev' = [NoEv(op, c) EXCEPT
                !.ref = players[c],
                !.had = players[c] # NoRef,
                !.dup = IF ev.op \in DisconnectOps /\ ev.conn = c
                        THEN (IF ev.had THEN "removed" ELSE "noop")
                        ELSE "no",
                !.changed = players' # players \/ roomPlayers' # roomPlayers]
    /\ sent' = <<>>
    /\ before' = heap
    /\ UNCHANGED <<now, lastTick, sockRoom, foods, playerInputs, timers, pc, dt, alive,
                   win, mark>>

\* handleLeave(socket)
HandleLeave(c) ==
    /\ Receives(c)
    /\ ncmd' = Min(ncmd + 1, MaxCmds)
    /\ Disconnects(c, "LEAVE")
    /\ UNCHANGED sockOpen

\* the socket's 'error' event: the socket is still to close
SocketError(c) ==
    /\ pc = Idle
    /\ sockOpen[c]
    /\ ncmd' = Min(ncmd + 1, MaxCmds)
    /\ Disconnects(c, "error")
    /\ UNCHANGED sockOpen

\* the socket's 'close' event
SocketClose(c) ==
    /\ pc = Idle
    /\ sockOpen[c]
    /\ sockOpen' = [sockOpen EXCEPT ![c] = FALSE]
    /\ Disconnects(c, "close")
    /\ UNCHANGED ncmd

---------------------------------------------------------------------------
(* The game loop: one setInterval callback, step by step.  No other callback  *)
(* runs between its steps.                                                    *)

Phase(ph, k) == [ph |-> ph, k |-> k]
RoomAt(k) == RoomOrder[k]

\* the callback starts: dt is taken and lastTick is set
TickBegin ==
    /\ pc = Idle
    /\ now > lastTick
    /\ dt' = now - lastTick
    /\ lastTick' = now
    /\ pc' = Phase("update", 1)
    /\ sent' = <<>>
    /\ ev' = NoEv("tick", 0)
    /\ before' = heap
    /\ UNCHANGED <<now, sockRoom, sockOpen, players, roomPlayers, foods, heap,
                   playerInputs, timers, alive, ncmd, win, mark, lastOk>>

\* the players of a room that Player.update respawns now
Respawning(r) ==
    {roomPlayers[r][i].ref : i \in 1..Len(roomPlayers[r])} \cap
    {x \in Refs : ~heap[x].isAlive /\ now > heap[x].respawnTime
                  /\ heap[x].currentRoom \in RoomIds}

\* GameRoom.update(dt), first line: every player of the room is updated;
\* spots are the positions drawn for those that respawn
UpdatePlayers(spots) ==
    /\ pc.ph = "update"
    /\ LET r == RoomAt(pc.k)
           inRoom == {roomPlayers[r][i].ref : i \in 1..Len(roomPlayers[r])}
       IN  /\ DOMAIN spots = Respawning(r)
           /\ heap' = [x \in Refs |->
                         IF x \in inRoom
                         THEN IF x \in Respawning(r)
                              THEN update(heap[x], dt, now, spots[x][1], spots[x][2])
                              ELSE update(heap[x], dt, now, 0, 0)
                         ELSE heap[x]]
    /\ pc' = Phase("pairs", pc.k)
    /\ ev' = NoEv("update", 0)
    /\ before' = heap
    /\ UNCHANGED <<now, lastTick, sockRoom, sockOpen, players, roomPlayers, foods,
                   playerInputs, timers, dt, alive, sent, ncmd, win, mark, lastOk>>

\* GameRoom.checkCollisions(): the array alive and the player-vs-player loop
PairSweep ==
    /\ pc.ph = "pairs"
    /\ LET r == RoomAt(pc.k)
           arr == aliveOf(heap, roomPlayers[r])
           st == pairSweep([heap |-> heap, sent |-> sent], arr, now, sockOpen)
       IN  /\ alive' = arr
           /\ heap' = st.heap
           /\ sent' = st.sent
    /\ pc' = Phase("food", pc.k)
    /\ ev' = NoEv("pairs", 0)
    /\ before' = heap
    /\ UNCHANGED <<now, lastTick, sockRoom, sockOpen, players, roomPlayers, foods,
                   playerInputs, timers, dt, ncmd, win, mark, lastOk>>

\* the units the food loop would consume, whatever the draws
Edible(r) ==
    \E i \in 1..Len(alive) : \E j \in 1..Len(foods[r]) :
        reaches(heap[alive[i]], foods[r][j].kind)

\* GameRoom.checkCollisions(): the player-vs-food loop
FoodSweep(draw) ==
    /\ pc.ph = "food"
    /\ LET r == RoomAt(pc.k)
           fs == foodSweep(heap, foods[r], alive, draw)
       IN  /\ Edible(r) \/ draw = [keep |-> "none", kind |-> 3]
           /\ heap' = fs.heap
           /\ foods' = [foods EXCEPT ![r] = fs.foods]
    /\ alive' = <<>>
    /\ pc' = Phase("refill", pc.k)
    /\ ev' = NoEv("food", 0)
    /\ before' = heap
    /\ UNCHANGED <<now, lastTick, sockRoom, sockOpen, players, roomPlayers,
                   playerInputs, timers, dt, sent, ncmd, win, mark, lastOk>>

\* generateFood(10) on every tick, whatever the length of the list
Refill_NoFloor(k) ==
    /\ pc.ph = "refill"
    /\ foods' = [foods EXCEPT ![RoomAt(pc.k)] = FoodPush(@, k, FoodRefill)]
    /\ pc' = IF pc.k < Len(RoomOrder) THEN Phase("update", pc.k + 1) ELSE Phase("send", 0)
    /\ ev' = NoEv("refill", 0)
    /\ before' = heap
    /\ UNCHANGED <<now, lastTick, sockRoom, sockOpen, players, roomPlayers, heap,
                   playerInputs, timers, dt, alive, sent, ncmd, win, mark, lastOk>>

\* GameRoom.update(dt), last line: generateFood(10) below the floor, every new
\* unit of kind k
Refill(k) ==
    /\ pc.ph = "refill"
    /\ LET r == RoomAt(pc.k)
       IN  IF FoodCount(foods[r]) < FoodFloor
           THEN foods' = [foods EXCEPT ![r] = FoodPush(@, k, FoodRefill)]
           ELSE /\ k = 3
                /\ UNCHANGED foods
    /\ pc' = IF pc.k < Len(RoomOrder) THEN Phase("update", pc.k + 1) ELSE Phase("send", 0)
    /\ ev' = NoEv("refill", 0)
    /\ before' = heap
    /\ UNCHANGED <<now, lastTick, sockRoom, sockOpen, players, roomPlayers, heap,
                   playerInputs, timers, dt, alive, sent, ncmd, win, mark, lastOk>>

\* the SET_ELEMENTS frames _sendUpdates sends for one room
roomFrames(r) ==
    LET rp == roomPlayers[r]
        socks == [i \in 1..Len(rp) |-> heap[rp[i].ref].sock]
        tos == SelectSeq(socks, LAMBDA c : sockOpen[c])
        body == encodeSetElements(r, heap, roomPlayers, foods)
    IN  [i \in 1..Len(tos) |-> Frame(tos[i], 48, sockOpen, body)]

\* _sendUpdates reaches room k of the Map and encodeSetElements throws there
sendThrowsAt(k) ==
    /\ Len(roomPlayers[RoomAt(k)]) > 0
    /\ encodeThrows(RoomAt(k), foods)

\* the frames of the rooms from the k-th on, up to the room whose encoding throws
RECURSIVE framesFrom(_)
framesFrom(k) ==
    IF k > Len(RoomOrder) \/ sendThrowsAt(k) THEN <<>>
    ELSE roomFrames(RoomAt(k)) \o framesFrom(k + 1)

\* NarwhaleGameServer._sendUpdates(): the snapshot of every room with players;
\* an exception of encodeSetElements leaves the loop and the callback
SendUpdates ==
    /\ pc.ph = "send"
    /\ sent' = sent \o framesFrom(1)
    /\ pc' = IF \E k \in 1..Len(RoomOrder) : sendThrowsAt(k) THEN Down ELSE Idle
    /\ ev' = NoEv("send", 0)
    /\ before' = heap
    /\ UNCHANGED <<now, lastTick, sockRoom, sockOpen, players, roomPlayers, foods, heap,
                   playerInputs, timers, dt, alive, ncmd, win, mark, lastOk>>

Tick ==
    \/ TickBegin
    \/ \E spots \in UNION {[S -> SpawnSpots] : S \in SUBSET Refs} : UpdatePlayers(spots)
    \/ PairSweep
    \/ \E draw \in FoodDraws : FoodSweep(draw)
    \/ \E k \in {3, 4} : Refill(k)
    \/ SendUpdates

---------------------------------------------------------------------------
(* The server from its construction, every callback enabled *)

ClockSteps == {50, 1000}
AngleDraws == {0}
JoinIds == RoomIds \cup {9}
Targets == {<<-50, 200>>, <<3000, 200>>}

LobbyCmds == 5
LobbySpots == {<<200, 200>>}
Budget == ncmd < MaxCmds
InTime == now < StartTime + MaxClock

Lobby ==
    \/ \E c \in Conns : \E r \in JoinIds : ncmd < LobbyCmds /\ HandleJoin(c, r)
    \/ \E c \in Conns : \E a \in AngleDraws : \E s \in LobbySpots :
          ncmd < LobbyCmds /\ HandleStart(c, a, s)
    \/ \E c \in Conns : HandleLeave(c)
    \/ \E c \in Conns : SocketError(c)
    \/ \E c \in Conns : SocketClose(c)

Next ==
    \/ \E d \in ClockSteps : InTime /\ AdvanceClock(d)
    \/ Tick
    \/ Lobby
    \/ \E c \in Conns : SnapshotTimer(c)
    \/ \E c \in Conns : \E t \in Targets : Budget /\ HandleUpdateTarget(c, t[1], t[2])
    \/ \E c \in Conns : \E b \in BOOLEAN : Budget /\ HandleInput(c, b)

Spec == Init /\ [][Next]_vars

\* the lobby alone: joining, starting, leaving and disconnecting
SpecLobby == Init /\ [][Lobby]_vars

\* Two players in room "Small 1".  Connection 1 joined, started at (200, 200),
\* sent its own position as target and has played two ticks of 1000 ms alone,
\* eating the food of value 3 the constructor had put at its place; connection
\* 2 has joined, started at (240, 200) and sent its target in this very
\* millisecond, after the second tick.
ArenaRoom == RoomOrder[1]
ArenaScores == {0, 300, 420}
ArenaTickMs == 1000

Veteran(score) ==
    LET p0 == [NewPlayer(1, 0) EXCEPT !.currentRoom = ArenaRoom]
        p1 == setTarget(spawn(p0, 200, 200), 200, 200)
        p2 == update(p1, ArenaTickMs, StartTime - ArenaTickMs, 0, 0)
        p3 == [p2 EXCEPT !.score = score]
    IN  update(p3, ArenaTickMs, StartTime, 0, 0)

Newcomer ==
    LET p0 == [NewPlayer(2, 0) EXCEPT !.currentRoom = ArenaRoom]
    IN  setTarget(spawn(p0, 240, 200), 240, 200)

ArenaFood == << [kind |-> 2, n |-> 1], [kind |-> 3, n |-> FoodFill - 1] >>

InitArena ==
    /\ now = StartTime
    /\ lastTick = StartTime
    /\ sockRoom = [c \in Conns |-> ArenaRoom]
    /\ sockOpen = [c \in Conns |-> TRUE]
    /\ players = [c \in Conns |-> c]
    /\ roomPlayers = [r \in RoomIds |->
                        IF r = ArenaRoom
                        THEN << [id |-> 1, ref |-> 1], [id |-> 2, ref |-> 2] >>
                        ELSE <<>>]
    /\ foods = [r \in RoomIds |-> IF r = ArenaRoom THEN ArenaFood ELSE InitialFood]
    /\ \E score \in ArenaScores :
          heap = [x \in Refs |-> CASE x = 1 -> Veteran(score)
                                   [] x = 2 -> Newcomer
                                   [] OTHER -> FreeSlot]
    /\ playerInputs = [c \in Conns |->
                         [has |-> TRUE, count |-> 1,
                          lastReset |-> IF c = 1 THEN StartTime - 2 * ArenaTickMs
                                        ELSE StartTime]]
    /\ timers = [c \in Conns |-> IF c = 2 THEN << StartTime + SnapshotDelay >> ELSE <<>>]
    /\ pc = Idle
    /\ dt = ArenaTickMs
    /\ alive = <<>>
    /\ sent = <<>>
    /\ ncmd = 0
    /\ ev = NoEv("init", 0)
    /\ before = heap
    /\ win = [c \in Conns |-> [start |-> playerInputs[c].lastReset, calls |-> 1]]
    /\ mark = [c \in Conns |-> << [t |-> playerInputs[c].lastReset, n |-> 1] >>]
    /\ lastOk = [x \in Refs |-> 0]

\* The two players for ArenaSpan ms: ticks, dashes, the snapshot timer
ArenaSpan == 6000
ArenaSteps == {2000}
ArenaCmds == 2

ArenaClock == \E d \in ArenaSteps : now + d <= StartTime + ArenaSpan /\ AdvanceClock(d)

NextArena ==
    \/ ArenaClock
    \/ Tick
    \/ \E c \in Conns : ncmd < ArenaCmds /\ HandleInput(c, TRUE)
    \/ \E c \in Conns : SnapshotTimer(c)

SpecArena == InitArena /\ [][NextArena]_vars

\* the two players, the game loop, and one more START of either connection
SpawnCmds == 1

NextSpawn ==
    \/ ArenaClock
    \/ Tick
    \/ \E c \in Conns : \E a \in AngleDraws : \E s \in SpawnSpots :
          ncmd < SpawnCmds /\ HandleStart(c, a, s)

SpecSpawn == InitArena /\ [][NextSpawn]_vars

\* the two players left to the game loop alone, with setInterval firing it
\* again and again and the wall clock moving on
NextRespawn == ArenaClock \/ Tick

\* the forEach of GameRoom.update returns: the room's update phase ends
UpdateDone == pc.ph = "update" /\ pc' = Phase("pairs", pc.k)

\* The callback of setInterval runs to its end once it has begun, and it is
\* begun again whenever the clock has moved. The update phase is left by
\* UpdatePlayers alone, so its fairness is stated on the program counter.
TickFair ==
    /\ WF_vars(TickBegin)
    /\ WF_pc(UpdateDone)
    /\ WF_vars(PairSweep)
    /\ WF_vars(\E draw \in FoodDraws : FoodSweep(draw))
    /\ WF_vars(\E k \in {3, 4} : Refill(k))
    /\ WF_vars(SendUpdates)

SpecRespawn == InitArena /\ [][NextRespawn]_vars /\ TickFair /\ WF_vars(ArenaClock)

\* The two players for DashSpan ms: INPUT frames with and without the dash bit
DashSpan == 500
DashSteps == {50, 100}
DashConn == CHOOSE c \in Conns : \A d \in Conns : c >= d

NextDash ==
    \/ \E d \in DashSteps : now + d <= StartTime + DashSpan /\ AdvanceClock(d)
    \/ Budget /\ HandleInput(DashConn, TRUE)

SpecDash == InitArena /\ [][NextDash]_vars

\* One connection that never starts a game sends commands for RateSpan ms
RateSpan == 1001
RateSteps == {500, 501}
RateConn == CHOOSE c \in Conns : \A d \in Conns : c <= d

NextRate ==
    \/ \E d \in RateSteps : now + d <= StartTime + RateSpan /\ AdvanceClock(d)
    \/ HandleUpdateTarget(RateConn, 3000, 200)
    \/ HandleInput(RateConn, FALSE)

SpecRate == Init /\ [][NextRate]_vars

\* One connection joins "Small 1", starts on a food cluster, holds its place
\* and plays ticks for FoodSpan ms
FoodSpan == 3000
FoodSteps == {1000}
FoodCmds == 3
FoodConn == CHOOSE c \in Conns : \A d \in Conns : c <= d
FoodSpots == {<<randomCoord(u, RoomW(RoomOrder[1])), randomCoord(u, RoomH(RoomOrder[1]))>> : u \in {0, 70}}

NextFood ==
    \/ \E d \in FoodSteps : now + d <= StartTime + FoodSpan /\ AdvanceClock(d)
    \/ Tick
    \/ ncmd < FoodCmds /\ HandleJoin(FoodConn, RoomOrder[1])
    \/ \E s \in FoodSpots : ncmd < FoodCmds /\ HandleStart(FoodConn, 0, s)
    \/ \E s \in FoodSpots : ncmd < FoodCmds /\ HandleUpdateTarget(FoodConn, s[1], s[2])
    \/ SnapshotTimer(FoodConn)

SpecFood == Init /\ [][NextFood]_vars

\* One connection joins, starts and closes while the game loop and the
\* snapshot timer of START run; the server was constructed either when bit 31
\* of Date.now() was clear or when it was set
WireSpan == 160
WireSteps == {80}
WireCmds == 2
WireConn == CHOOSE c \in Conns : \A d \in Conns : c <= d
WideFood == << [kind |-> 5, n |-> FoodFill] >>

InitWire ==
    /\ now = StartTime
    /\ lastTick = StartTime
    /\ sockRoom = [c \in Conns |-> NoRoom]
    /\ sockOpen = [c \in Conns |-> TRUE]
    /\ players = [c \in Conns |-> NoRef]
    /\ roomPlayers = [r \in RoomIds |-> <<>>]
    /\ \E fl \in {InitialFood, WideFood} : foods = [r \in RoomIds |-> fl]
    /\ heap = [x \in Refs |-> FreeSlot]
    /\ playerInputs = [c \in Conns |-> NoEntry]
    /\ timers = [c \in Conns |-> <<>>]
    /\ pc = Idle
    /\ dt = 0
    /\ alive = <<>>
    /\ sent = <<>>
    /\ ncmd = 0
    /\ InitHistory

NextWire ==
    \/ \E d \in WireSteps : now + d <= StartTime + WireSpan /\ AdvanceClock(d)
    \/ Tick
    \/ \E r \in RoomIds : ncmd < WireCmds /\ HandleJoin(WireConn, r)
    \/ \E s \in LobbySpots : ncmd < WireCmds /\ HandleStart(WireConn, 0, s)
    \/ SocketClose(WireConn)
    \/ SnapshotTimer(WireConn)

SpecWire == InitWire /\ [][NextWire]_vars

\* The newcomer of the arena floods the server with commands at one instant:
\* targets, dashes, short messages and unknown opcodes
MsgLen == 9
ProbeOps == Opcodes \cup {0, 33, 48}

NextDrop ==
    \/ HandleUpdateTarget(DashConn, 3000, 200)
    \/ HandleInput(DashConn, TRUE)
    \/ \E op \in ProbeOps : \E len \in 0..MsgLen : HandleDropped(DashConn, op, len)

SpecDrop == InitArena /\ [][NextDrop]_vars

\* The newcomer of the arena steers: targets inside the arena, outside it and
\* NaN, and dashes, while the game loop runs
SteerCmds == 2
SteerTargets == {<<240, 200>>, <<-50, 200>>, <<NaN, 200>>}

NextSteer ==
    \/ ArenaClock
    \/ Tick
    \/ \E t \in SteerTargets : ncmd < SteerCmds /\ HandleUpdateTarget(DashConn, t[1], t[2])
    \/ ncmd < SteerCmds /\ HandleInput(DashConn, TRUE)

SpecSteer == InitArena /\ [][NextSteer]_vars

\* The newcomer of the arena dashes while the game loop runs once a second, so
\* that the dash accumulator is seen part-filled between ticks
RegenSpan == 4000
RegenSteps == {1000}
RegenCmds == 2

NextRegen ==
    \/ \E d \in RegenSteps : now + d <= StartTime + RegenSpan /\ AdvanceClock(d)
    \/ Tick
    \/ ncmd < RegenCmds /\ HandleInput(DashConn, TRUE)

SpecRegen == InitArena /\ [][NextRegen]_vars

\* Three connections have joined the arena and started: two veterans and,
\* between them, the newcomer still under its spawn shield
TrioConns == Conns \cup {3}

Rival(score) ==
    LET p0 == [NewPlayer(3, 0) EXCEPT !.currentRoom = ArenaRoom]
        p1 == setTarget(spawn(p0, 240, 240), 240, 240)
        p2 == update(p1, ArenaTickMs, StartTime - ArenaTickMs, 0, 0)
        p3 == [p2 EXCEPT !.score = score]
    IN  update(p3, ArenaTickMs, StartTime, 0, 0)

InitTrio ==
    /\ now = StartTime
    /\ lastTick = StartTime
    /\ sockRoom = [c \in TrioConns |-> ArenaRoom]
    /\ sockOpen = [c \in TrioConns |-> TRUE]
    /\ players = [c \in TrioConns |-> c]
    /\ roomPlayers = [r \in RoomIds |->
                        IF r = ArenaRoom
                        THEN << [id |-> 1, ref |-> 1], [id |-> 2, ref |-> 2],
                                [id |-> 3, ref |-> 3] >>
                        ELSE <<>>]
    /\ foods = [r \in RoomIds |-> IF r = ArenaRoom THEN ArenaFood ELSE InitialFood]
    /\ \E score \in ArenaScores : \E other \in ArenaScores :
          heap = [x \in Refs |-> CASE x = 1 -> Veteran(score)
                                   [] x = 2 -> Newcomer
                                   [] x = 3 -> Rival(other)
                                   [] OTHER -> FreeSlot]
    /\ playerInputs = [c \in TrioConns |->
                         [has |-> TRUE, count |-> 1,
                          lastReset |-> IF c = 2 THEN StartTime
                                        ELSE StartTime - 2 * ArenaTickMs]]
    /\ timers = [c \in TrioConns |-> IF c = 2 THEN << StartTime + SnapshotDelay >> ELSE <<>>]
    /\ pc = Idle
    /\ dt = ArenaTickMs
    /\ alive = <<>>
    /\ sent = <<>>
    /\ ncmd = 0
    /\ ev = NoEv("init", 0)
    /\ before = heap
    /\ win = [c \in TrioConns |-> [start |-> playerInputs[c].lastReset, calls |-> 1]]
    /\ mark = [c \in TrioConns |-> << [t |-> playerInputs[c].lastReset, n |-> 1] >>]
    /\ lastOk = [x \in Refs |-> 0]

NextTrio == ArenaClock \/ Tick

SpecTrio == InitTrio /\ [][NextTrio]_vars

\* The newcomer of the arena dashes and sends START again while the game loop
\* runs
AgainCmds == 2

NextAgain ==
    \/ ArenaClock
    \/ Tick
    \/ ncmd < AgainCmds /\ HandleInput(DashConn, TRUE)
    \/ \E s \in SpawnSpots : ncmd < AgainCmds /\ HandleStart(DashConn, 0, s)

SpecAgain == InitArena /\ [][NextAgain]_vars

---------------------------------------------------------------------------
(* Claims about the registry and the rooms' player sets (SpecLobby) *)

\* the rooms whose player Map holds the object x
RoomsOf(x) == {r \in RoomIds : \E i \in 1..Len(roomPlayers[r]) : roomPlayers[r][i].ref = x}

\* C2: handleDisconnection is idempotent.  In every reachable state and for
\* every connection, running it on the registry and rooms it has just left
\* changes nothing; and a call that directly follows a call for the same
\* connection changed neither the registry nor any room's player Map.
C2_DisconnectIdempotent ==
    /\ \A c \in Conns :
          LET once == handleDisconnection(players, roomPlayers, heap, c)
          IN  handleDisconnection(once.players, once.rooms, heap, c) = once
    /\ (ev.op \in DisconnectOps /\ ev.dup # "no") => ~ev.changed

\* C2 witness: a second disconnection of a connection whose first
\* disconnection found a registered player
C2_Witness == ev.op \in DisconnectOps /\ ev.dup = "removed"

\* C3 as claimed: every registered player is in the player Map of exactly one
\* room
C3_ExactlyOneRoom ==
    \A c \in Conns : players[c] # NoRef => Cardinality(RoomsOf(players[c])) = 1

\* C4 as claimed: once a connection's disconnection has been handled, neither
\* the registry nor any room holds an entity with the connection's id
C4_GoneAfterDisconnect ==
    ev.op \in DisconnectOps =>
        /\ players[ev.conn] = NoRef
        /\ \A r \in RoomIds : roomGet(roomPlayers[r], ev.conn) = NoRef

---------------------------------------------------------------------------
(* Claims about the input rate limiter (SpecRate) *)

\* the commands of connection c accepted in the last RateWindow ms
AcceptedLately(c) ==
    LET recent == SelectSeq(mark[c], LAMBDA m : now - m.t < RateWindow)
        RECURSIVE Sum(_)
        Sum(i) == IF i = 0 THEN 0 ELSE recent[i].n + Sum(i - 1)
    IN  Sum(Len(recent))

\* C5: within one window of the rate limiter (it starts at a connection's
\* first call, or at the first call more than 1000 ms after the window's
\* start) the calls 1..120 of validateInputRate return true and call 121 and
\* every later one return false; the first call after a rollover counts as
\* call 1 again.
C5_First120PerWindow ==
    /\ \A c \in Conns : playerInputs[c].has =>
          /\ playerInputs[c].count = win[c].calls
          /\ playerInputs[c].lastReset = win[c].start
    /\ ev.op \in {"UPDATE_TARGET", "INPUT"} =>
          (ev.rate = "ok" <=> win[ev.conn].calls <= maxInputRate)

\* C5 witness: call 121 of a window that began after a rollover is refused
C5_Witness ==
    /\ ev.op \in {"UPDATE_TARGET", "INPUT"}
    /\ ev.rate = "over"
    /\ win[ev.conn].calls = maxInputRate + 1
    /\ win[ev.conn].start > StartTime

\* C6 as claimed: in every interval of 1000 ms a connection has at most 120
\* commands accepted
C6_RollingWindow == \A c \in Conns : AcceptedLately(c) <= maxInputRate

---------------------------------------------------------------------------
(* Claims about the dash (SpecDash) *)

\* the INPUT frame just handled asked for a dash of a registered player
DashTried == ev.op = "INPUT" /\ ev.dash # "none"

\* C7: a useDash call less than 100 ms after the same player's previous
\* successful dash returns false and leaves dashCharge as it was, so two calls
\* within 100 ms lower dashCharge by exactly 1; a dash that succeeds comes at
\* least 100 ms after the previous successful one.
C7_DashCooldown ==
    DashTried =>
        /\ (ev.since >= 0 /\ ev.since < DashCooldown) =>
              /\ ev.dash = "refused"
              /\ heap[ev.ref].curDash = before[ev.ref].curDash
        /\ ev.dash = "ok" => (ev.since = -1 \/ ev.since >= DashCooldown)

\* C7 witness: a player with charge left is refused 50 ms after its dash
C7_Witness ==
    /\ DashTried
    /\ ev.dash = "refused"
    /\ ev.since = 50
    /\ before[ev.ref].curDash = before[ev.ref].maxDash - 1

\* C8: useDash succeeds exactly when dashCharge > 0 and the previous
\* successful dash is at least 100 ms old (or there was none); a success
\* takes one charge and stamps the time; a refused call leaves dashCharge,
\* velocity and lastDashTime as they were and sends no frame.
C8_DashExactlyWhen ==
    DashTried =>
        /\ ev.dash = "ok" <=>
              /\ before[ev.ref].curDash > 0
              /\ (ev.since = -1 \/ ev.since >= DashCooldown)
        /\ ev.dash = "ok" =>
              /\ heap[ev.ref].curDash = before[ev.ref].curDash - 1
              /\ heap[ev.ref].lastDashTime = now
        /\ ev.dash = "refused" =>
              /\ heap[ev.ref] = before[ev.ref]
              /\ sent = <<>>

\* C8 witness: a player without charge is refused although its last dash is
\* 100 ms old
C8_Witness ==
    /\ DashTried
    /\ ev.dash = "refused"
    /\ ev.since >= DashCooldown
    /\ before[ev.ref].curDash = 0

---------------------------------------------------------------------------
(* Claims about the players in a tick (SpecArena) *)

\* C1: every Player object has a chain of exactly 11 segments and a
\* dashCharge that is an integer from 0 to maxDash, after every step of a
\* tick, every dash, every death and every respawn.
C1_ChainAndCharge ==
    \A x \in Refs :
        /\ Len(heap[x].parts) = ChainLength
        /\ heap[x].curDash \in 0..heap[x].maxDash

\* C1 witness: a player that died has respawned, and a player that dashed
\* has got a charge back
C1_Witness ==
    /\ \E x \in Refs : heap[x].deaths > 0 /\ heap[x].isAlive /\ heap[x].isSpawned
    /\ \E y \in Refs : heap[y].lastDashTime # 0 /\ heap[y].curDash = heap[y].maxDash

\* the pair of the array alive at i and j was within collision distance with
\* sizes more than 10 apart when the sweep began
Hits(i, j) ==
    LET p1 == before[alive[i]]
        p2 == before[alive[j]]
        sum == p1.size + p2.size
    IN  /\ 25 * Dist2(p1.pos.x, p1.pos.y, p2.pos.x, p2.pos.y) < 9 * sum * sum
        /\ Abs(p1.size - p2.size) > 10

\* the smaller player of the pair
Smaller(i, j) ==
    IF before[alive[i]].size < before[alive[j]].size THEN alive[i] ELSE alive[j]

\* the larger player of the pair
Larger(i, j) ==
    IF before[alive[i]].size < before[alive[j]].size THEN alive[j] ELSE alive[i]

\* C9: in the pair sweep, of two alive players closer than
\* (size1 + size2) * 0.6 whose sizes differ by more than 10 the smaller one is
\* DEAD afterwards unless it was invincible, with one death more and the larger
\* one credited a kill; a player that is in no such pair
\* (its pairs are too far apart or differ by 10 or less) is left exactly as
\* it was.
C9_PairSweep ==
    ev.op = "pairs" =>
        /\ \A i, j \in 1..Len(alive) :
              (i < j /\ Hits(i, j) /\ before[Smaller(i, j)].invincibleDur = 0) =>
                  /\ ~heap[Smaller(i, j)].isAlive
                  /\ ~heap[Smaller(i, j)].isSpawned
                  /\ heap[Smaller(i, j)].deaths > before[Smaller(i, j)].deaths
                  /\ heap[Larger(i, j)].kills > before[Larger(i, j)].kills
        /\ \A i \in 1..Len(alive) :
              (\A j \in 1..Len(alive) :
                  j = i \/ ~Hits(Min(i, j), Max(i, j))
                        \/ before[Smaller(Min(i, j), Max(i, j))].invincibleDur > 0) =>
                  heap[alive[i]] = before[alive[i]]

\* C9 witness: the sweep has just killed the smaller player of a pair
C9_Witness ==
    /\ ev.op = "pairs"
    /\ \E i, j \in 1..Len(alive) :
          /\ i < j
          /\ Hits(i, j)
          /\ before[Smaller(i, j)].isAlive
          /\ ~heap[Smaller(i, j)].isAlive

\* C10 as claimed: a player that is DEAD when a sweep of checkCollisions
\* begins, also one that died in the pair sweep of the same tick, gains no
\* score and no kill in that sweep
C10_DeadGainNothing ==
    ev.op \in {"pairs", "food"} =>
        \A x \in Refs :
            ~before[x].isAlive =>
                /\ heap[x].score = before[x].score
                /\ heap[x].kills = before[x].kills

---------------------------------------------------------------------------
(* Claims about takeDamage, death and respawn (SpecArena) *)

\* the RIP frames among the frames sent so far in this callback
RipsTo(c) == {i \in 1..Len(sent) : sent[i].op = 34 /\ sent[i].to = c}

\* C11: while the victim's invincibility timer is above 0, takeDamage returns
\* false and changes nothing.  For every player with the timer running and
\* every attacker the call leaves all objects and the sent frames as they
\* are; and after a pair sweep in which the smaller player of a colliding pair
\* was invincible, that player is alive with its deaths unchanged, it was
\* sent no RIP frame, and (with no third player around) the larger player has
\* the kills and score it had.
C11_InvincibleNoOp ==
    /\ \A v, a \in Held(players, roomPlayers) :
          heap[v].invincibleDur > 0 =>
              /\ ~takeDamageOk(heap[v])
              /\ takeDamage([heap |-> heap, sent |-> sent], v, a, now, sockOpen)
                    = [heap |-> heap, sent |-> sent]
    /\ ev.op = "pairs" =>
          \A i, j \in 1..Len(alive) :
              (i < j /\ Hits(i, j) /\ before[Smaller(i, j)].invincibleDur > 0) =>
                  /\ heap[Smaller(i, j)].isAlive
                  /\ heap[Smaller(i, j)].deaths = before[Smaller(i, j)].deaths
                  /\ RipsTo(heap[Smaller(i, j)].sock) = {}
                  /\ Len(alive) = 2 =>
                        /\ heap[Larger(i, j)].kills = before[Larger(i, j)].kills
                        /\ heap[Larger(i, j)].score = before[Larger(i, j)].score

\* C11 witness: a pair sweep met a colliding pair whose smaller player was
\* still invincible
C11_Witness ==
    /\ ev.op = "pairs"
    /\ \E i, j \in 1..Len(alive) :
          i < j /\ Hits(i, j) /\ before[Smaller(i, j)].invincibleDur > 0

\* C12: takeDamage on a victim that is not invincible, by another player,
\* returns true, gives the attacker exactly one kill and exactly
\* 100 + victim.level * 20 score, and leaves the victim DEAD with exactly one
\* death more and respawnTime = now + 3000.  Stated for the call on every pair
\* of players of a reachable state, and observed after a pair sweep of two
\* players.
C12_DamageApplied ==
    /\ \A v, a \in Held(players, roomPlayers) :
          (v # a /\ heap[v].invincibleDur = 0) =>
              LET st == takeDamage([heap |-> heap, sent |-> sent], v, a, now, sockOpen)
              IN  /\ takeDamageOk(heap[v])
                  /\ st.heap[a].kills = heap[a].kills + 1
                  /\ st.heap[a].score = heap[a].score + 100 + heap[v].level * 20
                  /\ ~st.heap[v].isAlive
                  /\ st.heap[v].deaths = heap[v].deaths + 1
                  /\ st.heap[v].respawnTime = now + RespawnDelay
    /\ (ev.op = "pairs" /\ Len(alive) = 2 /\ Hits(1, 2)
          /\ before[Smaller(1, 2)].invincibleDur = 0) =>
          /\ heap[Larger(1, 2)].kills = before[Larger(1, 2)].kills + 1
          /\ heap[Larger(1, 2)].score =
                before[Larger(1, 2)].score + 100 + before[Smaller(1, 2)].level * 20
          /\ ~heap[Smaller(1, 2)].isAlive
          /\ heap[Smaller(1, 2)].deaths = before[Smaller(1, 2)].deaths + 1
          /\ heap[Smaller(1, 2)].respawnTime = now + RespawnDelay

\* C12 witness: a pair sweep of two players has applied damage to the
\* smaller one, whose level differs from the attacker's
C12_Witness ==
    /\ ev.op = "pairs"
    /\ Len(alive) = 2
    /\ Hits(1, 2)
    /\ before[Smaller(1, 2)].invincibleDur = 0
    /\ before[Larger(1, 2)].level # before[Smaller(1, 2)].level
    /\ ~heap[Smaller(1, 2)].isAlive

\* C13: a Player object goes from DEAD to ALIVE only in the update step of a
\* tick whose clock is strictly greater than its respawnTime, which is the
\* time of its death + 3000; it goes from ALIVE to DEAD only in a pair sweep,
\* as the smaller player of a colliding pair, and is then stamped
\* respawnTime = now + 3000.
C13_RespawnNotBefore ==
    [][\A x \in Refs :
          /\ (~heap[x].isAlive /\ heap'[x].isAlive) =>
                /\ ev'.op = "update"
                /\ now' > heap[x].respawnTime
          /\ (heap[x].isAlive /\ ~heap'[x].isAlive) =>
                /\ ev'.op = "pairs"
                /\ heap'[x].respawnTime = now' + RespawnDelay
                /\ \E i, j \in 1..Len(alive') :
                      i < j /\ x \in {alive'[i], alive'[j]}
                      /\ heap[x].invincibleDur = 0]_vars

\* C13 witness: a player that died has just been respawned by a tick
C13_Witness ==
    /\ ev.op = "update"
    /\ \E x \in Refs : ~before[x].isAlive /\ heap[x].isAlive /\ heap[x].deaths > 0

\* the object x is in the player Map of room r
InRoom(x, r) == \E i \in 1..Len(roomPlayers[r]) : roomPlayers[r][i].ref = x

\* the clock of this run can still get past the respawnTime of x
ClockCanPass(x) ==
    \E d \in ArenaSteps : heap[x].respawnTime < StartTime + d * (ArenaSpan \div d)

\* x is DEAD in a room
DeadInRoom(x) == ~heap[x].isAlive /\ \E r \in RoomIds : InRoom(x, r)

\* C14: with ticks that keep running and a clock that keeps advancing, every
\* DEAD player of a room whose respawnTime the clock can pass is eventually
\* ALIVE again; and the update step of the first tick whose clock exceeds the
\* respawnTime of a DEAD player of the room respawns it.
C14_EventuallyRespawns ==
    /\ \A x \in Refs : (DeadInRoom(x) /\ ClockCanPass(x)) ~> heap[x].isAlive
    /\ [](ev.op = "update" =>
            \A x \in Refs :
                (~before[x].isAlive /\ InRoom(x, RoomAt(pc.k))
                    /\ now > before[x].respawnTime) =>
                    heap[x].isAlive /\ heap[x].isSpawned)

\* C14 witness: a tick has respawned a player more than 3000 ms after its
\* death
C14_Witness ==
    /\ ev.op = "update"
    /\ \E x \in Refs :
          /\ ~before[x].isAlive
          /\ now > before[x].respawnTime
          /\ heap[x].isAlive
          /\ heap[x].invincibleDur = InvincibleSpawn

\* x has been DEAD since before the running tick and stays so in it
DeadAllTick(x) ==
    /\ ~before[x].isAlive
    /\ before[x].respawnTime < now + RespawnDelay
    /\ ~(now > before[x].respawnTime)

\* C15: Player.update applied to a DEAD player whose respawnTime the clock
\* has not passed returns the player as it was, and no step of the tick
\* (update, pair sweep, food sweep, refill, broadcast) changes any field of a
\* player that was DEAD before the tick and is not yet due: position,
\* velocity, segments, curDash, overDash, invincibleDur, level and size stay.
C15_DeadUntouched ==
    /\ \A x \in Held(players, roomPlayers) \cap Refs :
          (~heap[x].isAlive /\ ~(now > heap[x].respawnTime)) =>
              \A spot \in SpawnSpots :
                  \A d \in {dt, ArenaTickMs} :
                      update(heap[x], d, now, spot[1], spot[2]) = heap[x]
    /\ ev.op \in {"update", "pairs", "food", "refill", "send"} =>
          \A x \in Refs : DeadAllTick(x) => heap[x] = before[x]

\* C15 witness: the update step of a tick has just passed over a DEAD player
\* that had dashed and was still moving when it died
C15_Witness ==
    /\ ev.op = "update"
    /\ \E x \in Refs :
          /\ DeadAllTick(x)
          /\ InRoom(x, RoomAt(pc.k))
          /\ heap[x].curDash < heap[x].maxDash
          /\ heap[x].deaths > 0

\* the state Player.spawn leaves the player x of room r in
JustSpawned(p, r) ==
    /\ p.isAlive /\ p.isSpawned
    /\ p.vel = [x |-> 0, y |-> 0]
    /\ p.curDash = p.maxDash
    /\ p.level = 1 /\ p.size = 36
    /\ p.invincibleDur = InvincibleSpawn
    /\ 200 <= p.pos.x /\ p.pos.x <= RoomW(r) - 200
    /\ 200 <= p.pos.y /\ p.pos.y <= RoomH(r) - 200

\* C16: right after START in a room, and right after the update step that
\* respawns a DEAD player, the player is alive and spawned with zero velocity,
\* curDash = maxDash, level 1, size 36, invincibleDur 2.0 s and a position in
\* [200, width - 200] x [200, height - 200]; every draw of Math.random() gives
\* a coordinate in that range, and spawn leaves every player so.
C16_SpawnState ==
    /\ \A r \in RoomIds : \A u \in 0..(RandomUnit - 1) :
          /\ 200 <= randomCoord(u, RoomW(r))
          /\ randomCoord(u, RoomW(r)) <= RoomW(r) - 200
          /\ 200 <= randomCoord(u, RoomH(r))
          /\ randomCoord(u, RoomH(r)) <= RoomH(r) - 200
    /\ \A x \in Held(players, roomPlayers) \cap Refs :
          heap[x].currentRoom \in RoomIds =>
              \A spot \in SpawnSpots :
                  JustSpawned(spawn(heap[x], spot[1], spot[2]), heap[x].currentRoom)
    /\ (ev.op = "START" /\ sockRoom[ev.conn] \in RoomIds) =>
          JustSpawned(heap[ev.ref], sockRoom[ev.conn])
    /\ ev.op = "update" =>
          \A x \in Refs :
              (~before[x].isAlive /\ heap[x].isAlive) =>
                  JustSpawned(heap[x], heap[x].currentRoom)

\* C16 witness: after a START in the room, a tick has just respawned a player
\* that had grown past level 1 or had spent its dash charge
C16_Witness ==
    /\ ev.op = "update"
    /\ ncmd = SpawnCmds
    /\ \E x \in Refs :
          /\ ~before[x].isAlive /\ heap[x].isAlive
          /\ before[x].invincibleDur = 0
          /\ JustSpawned(heap[x], RoomAt(pc.k))

\* the units of kind k in a food list
KindCount(fl, k) ==
    LET RECURSIVE Sum(_)
        Sum(i) == IF i = 0 THEN 0
                  ELSE (IF fl[i].kind = k THEN fl[i].n ELSE 0) + Sum(i - 1)
    IN  Sum(Len(fl))

\* Math.hypot(dx, dy) < player.size / 2 + food.size, for the units of kind k
Near(p, k) ==
    LET dx == p.pos.x - FoodKinds[k].x
        dy == p.pos.y - FoodKinds[k].y
    IN  4 * (dx * dx + dy * dy) < (p.size + 2 * FoodSize(k)) * (p.size + 2 * FoodSize(k))

RECURSIVE NearCount(_, _, _)
NearCount(fl, p, k) ==
    IF k = 0 THEN 0
    ELSE (IF Near(p, k) THEN KindCount(fl, k) ELSE 0) + NearCount(fl, p, k - 1)

RECURSIVE NearValue(_, _, _)
NearValue(fl, p, k) ==
    IF k = 0 THEN 0
    ELSE (IF Near(p, k) THEN KindCount(fl, k) * FoodKinds[k].value ELSE 0)
             + NearValue(fl, p, k - 1)

\* the heap and the food list when the food loop comes to the i-th player of
\* the snapshot, under the draws of this sweep
FoodTurn(i, draw) ==
    foodLoop([heap |-> heap, foods |-> foods[RoomAt(pc.k)]],
             SubSeq(alive, 1, i - 1), 1, draw, 0)

\* C17: in the food loop of a tick, an alive player gains value * 10 for every
\* unit that is nearer than size / 2 + food.size when its turn comes, those
\* units leave the list, at most one new unit per consumed unit is pushed, the
\* other units and the other players stay as they are; a single value-3 unit
\* in reach gives exactly 30.
C17_FoodEaten ==
    pc.ph = "food" =>
        \A draw \in FoodDraws : \A i \in 1..Len(alive) :
            LET x   == alive[i]
                was == FoodTurn(i, draw)
                got == FoodTurn(i + 1, draw)
                p   == was.heap[x]
                n   == NearCount(was.foods, p, Len(FoodKinds))
                back == FoodCount(got.foods) - (FoodCount(was.foods) - n)
            IN  p.isAlive =>
                  /\ got.heap[x].score = p.score + 10 * NearValue(was.foods, p, Len(FoodKinds))
                  /\ got.heap[x] = [p EXCEPT !.score = got.heap[x].score]
                  /\ \A y \in Refs \ {x} : got.heap[y] = was.heap[y]
                  /\ 0 <= back /\ back <= n
                  /\ \A k \in 1..Len(FoodKinds) :
                        KindCount(got.foods, k) =
                            (IF Near(p, k) THEN 0 ELSE KindCount(was.foods, k))
                            + (IF k = draw.kind THEN back ELSE 0)
                  /\ (n = 1 /\ NearValue(was.foods, p, Len(FoodKinds)) = 3) =>
                        got.heap[x].score - p.score = 30

\* C17 witness: the food loop has just given an alive player exactly 30 and
\* the list is one unit shorter or as long as before
C17_Witness ==
    /\ ev.op = "food"
    /\ \E x \in Refs :
          /\ heap[x].isAlive /\ before[x].isAlive
          /\ heap[x].score = before[x].score + 30
          /\ InRoom(x, RoomAt(pc.k))

\* the score all players together gained in the last step
ScoreGained ==
    LET RECURSIVE Sum(_)
        Sum(x) == IF x = 0 THEN 0 ELSE (heap[x].score - before[x].score) + Sum(x - 1)
    IN  Sum(MaxObjs)

\* C18: the food list of every room never holds more than 300 units, every
\* unit has value 1 or 3, and the list gets shorter only in the food loop of
\* checkCollisions, by no more units than the players were paid for.
C18_FoodCeiling ==
    /\ [](\A r \in RoomIds :
             /\ FoodCount(foods[r]) <= FoodFill
             /\ \A j \in 1..Len(foods[r]) :
                   /\ foods[r][j].n > 0
                   /\ FoodKinds[foods[r][j].kind].value \in {1, 3})
    /\ [][\A r \in RoomIds :
             FoodCount(foods'[r]) < FoodCount(foods[r]) =>
                 /\ ev'.op = "food"
                 /\ r = RoomAt(pc.k)
                 /\ \E x \in Refs :
                       InRoom(x, r) /\ heap'[x].score > heap[x].score
                 /\ LET paid == ScoreGained'
                    IN  10 * (FoodCount(foods[r]) - FoodCount(foods'[r])) <= paid]_vars

\* C18 witness: a sweep has taken the list below the floor and generateFood
\* has just pushed ten value-3 units onto it
C18_Witness ==
    /\ ev.op = "refill"
    /\ \E r \in RoomIds :
          /\ FoodCount(foods[r]) < FoodFloor + FoodRefill
          /\ KindCount(foods[r], 4) = FoodRefill

\* the kind of the i-th unit of a food list
RECURSIVE UnitAt(_, _)
UnitAt(fl, i) ==
    IF fl = <<>> THEN 0
    ELSE IF i <= fl[1].n THEN fl[1].kind ELSE UnitAt(Tail(fl), i - fl[1].n)

\* the body b is the snapshot of room r with the food list fl: a FISH record
\* for exactly the alive and spawned players of the Map, each once and in the
\* order of the Map, then the first min(100, length) food units in list order
SnapshotOf(b, r, fl) ==
    LET shown == {x \in Refs : InRoom(x, r) /\ heap[x].isAlive /\ heap[x].isSpawned}
        Place(x) == CHOOSE i \in 1..Len(roomPlayers[r]) : roomPlayers[r][i].ref = x
    IN  /\ b.room = r
        /\ Len(b.fish) = Cardinality(shown)
        /\ \A x \in shown : \E i \in 1..Len(b.fish) : b.fish[i] = heap[x].id
        /\ \A i \in 1..Len(b.fish) : \E x \in shown : b.fish[i] = heap[x].id
        /\ \A i, j \in 1..Len(b.fish) :
              i < j => \E x, y \in shown :
                          /\ b.fish[i] = heap[x].id /\ b.fish[j] = heap[y].id
                          /\ Place(x) < Place(y)
        /\ b.food = (IF FoodCount(fl) < SnapshotFood THEN FoodCount(fl) ELSE SnapshotFood)
        /\ FoodCount(b.units) = b.food
        /\ \A i \in 1..b.food : UnitAt(b.units, i) = UnitAt(fl, i)

\* food lists of 0, 99, 100 and 101 units and one of mixed kinds
FoodProbes ==
    { <<>>,
      << [kind |-> 3, n |-> SnapshotFood - 1] >>,
      << [kind |-> 1, n |-> 1], [kind |-> 3, n |-> SnapshotFood - 1] >>,
      << [kind |-> 2, n |-> 1], [kind |-> 3, n |-> SnapshotFood - 1], [kind |-> 4, n |-> 1] >>,
      << [kind |-> 3, n |-> 2], [kind |-> 1, n |-> 1], [kind |-> 3, n |-> 1] >> }

\* C19: every SET_ELEMENTS frame, of the broadcast of a tick and of the
\* snapshot timer of START, has a FISH record for exactly the room's players
\* that are alive and spawned, followed by FOOD records for exactly the first
\* min(100, foods.length) units of the room's list, in list order; the same
\* holds for the frame encodeSetElements makes of any food list.
C19_SnapshotContent ==
    /\ ev.op \in {"send", "timer"} =>
          \A n \in 1..Len(sent) :
              sent[n].op = 48 =>
                  /\ sent[n].body.room \in RoomIds
                  /\ SnapshotOf(sent[n].body, sent[n].body.room,
                                foods[sent[n].body.room])
    /\ \A r \in RoomIds : \A fl \in FoodProbes :
          SnapshotOf(encodeSetElements(r, heap, roomPlayers, [foods EXCEPT ![r] = fl]),
                     r, fl)

\* C19 witness: the broadcast of a tick has a frame without a record for a
\* DEAD player of the room and with 100 of the more than 100 units
C19_Witness ==
    /\ ev.op = "send"
    /\ \E n \in 1..Len(sent) :
          /\ sent[n].op = 48
          /\ sent[n].body.food = SnapshotFood
          /\ FoodCount(foods[sent[n].body.room]) > SnapshotFood
          /\ Len(sent[n].body.fish) = 1
          /\ \E x \in Refs : InRoom(x, sent[n].body.room) /\ ~heap[x].isAlive

\* x died in the running tick
DiedThisTick(x) ==
    /\ ~heap[x].isAlive
    /\ heap[x].deaths > 0
    /\ heap[x].respawnTime = now + RespawnDelay

\* C20: the RIP frame of a player that dies in a tick is in the frames of
\* that tick before every SET_ELEMENTS frame of its broadcast (no
\* SET_ELEMENTS frame has been sent when the pair sweep ends), and no
\* SET_ELEMENTS frame made while a player of the room is DEAD has a FISH
\* record with its id.
C20_RipBeforeSnapshot ==
    /\ ev.op \in {"pairs", "food", "refill", "send"} =>
          \A x \in Refs :
              (DiedThisTick(x) /\ sockOpen[heap[x].sock]) =>
                  \E i \in 1..Len(sent) :
                      /\ sent[i].op = 34
                      /\ sent[i].to = heap[x].sock
                      /\ \A j \in 1..Len(sent) : sent[j].op = 48 => i < j
    /\ ev.op \in {"send", "timer"} =>
          \A n \in 1..Len(sent) :
              sent[n].op = 48 =>
                  \A x \in Refs :
                      (InRoom(x, sent[n].body.room) /\ ~heap[x].isAlive) =>
                          \A i \in 1..Len(sent[n].body.fish) :
                              sent[n].body.fish[i] # heap[x].id

\* C20 witness: a tick in which a player died ends with its RIP frame
\* followed by the broadcast to both connections
C20_Witness ==
    /\ ev.op = "send"
    /\ \E x \in Refs :
          /\ DiedThisTick(x)
          /\ sent[1].op = 34 /\ sent[1].to = heap[x].sock
          /\ Len(sent) = 3
          /\ sent[2].op = 48 /\ sent[3].op = 48
          /\ Len(sent[2].body.fish) = 1

---------------------------------------------------------------------------
(* Claims about the frames on the wire (SpecWire) *)

\* C21: every frame the server hands to a socket, from the tick broadcast,
\* from die() and from the snapshot timer of START, goes to a socket that is
\* open at that moment.
C21_NoFrameToClosed == \A n \in 1..Len(sent) : sent[n].open

\* the SET_ELEMENTS frames of room r that the running callback sent to c
SnapshotsTo(c, r) ==
    {n \in 1..Len(sent) : sent[n].op = 48 /\ sent[n].to = c /\ sent[n].body.room = r}

\* C22: when the broadcast of a tick is over, every player of every room whose
\* socket is open, alive or dead, has been sent exactly one SET_ELEMENTS frame
\* of that room by this tick.
C22_BroadcastEveryTick ==
    ev.op = "send" =>
        \A r \in RoomIds : \A x \in Refs :
            (InRoom(x, r) /\ sockOpen[heap[x].sock]) =>
                Cardinality(SnapshotsTo(heap[x].sock, r)) = 1

---------------------------------------------------------------------------
(* Claims about steering and movement (SpecSteer) *)

\* C24: the target of every player of a room is a point of the room:
\* targetX in [0, width] and targetY in [0, height].
C24_TargetInArena ==
    \A r \in RoomIds : \A x \in Refs :
        InRoom(x, r) =>
            /\ 0 <= heap[x].targetX /\ heap[x].targetX <= RoomW(r)
            /\ 0 <= heap[x].targetY /\ heap[x].targetY <= RoomH(r)

\* C25: handling UPDATE_TARGET changes nothing of any player but targetX and
\* targetY of the sender's player; handling INPUT changes nothing but curDash,
\* lastDashTime and the velocity of the sender's player; so neither changes a
\* position, a score, a level or isAlive.  A position changes only in the
\* update step of a tick or in a spawn.
C25_ServerAuthority ==
    [][/\ ev'.op = "UPDATE_TARGET" =>
             \A x \in Refs :
                 /\ heap'[x] = [heap[x] EXCEPT !.targetX = heap'[x].targetX,
                                               !.targetY = heap'[x].targetY]
                 /\ x # players[ev'.conn] => heap'[x] = heap[x]
       /\ ev'.op = "INPUT" =>
             \A x \in Refs :
                 /\ heap'[x] = [heap[x] EXCEPT !.curDash = heap'[x].curDash,
                                               !.lastDashTime = heap'[x].lastDashTime,
                                               !.vel = heap'[x].vel]
                 /\ x # players[ev'.conn] => heap'[x] = heap[x]
       /\ ev'.op \in {"UPDATE_TARGET", "INPUT"} =>
             \A x \in Refs :
                 /\ heap'[x].pos = heap[x].pos
                 /\ heap'[x].score = heap[x].score
                 /\ heap'[x].level = heap[x].level
                 /\ heap'[x].isAlive = heap[x].isAlive
       /\ \A x \in Refs :
             heap'[x].pos # heap[x].pos => ev'.op \in {"update", "START"}]_vars

\* C25 witness: a target outside the arena has just been stored, clamped, for
\* a player that stands elsewhere and has dashed before
C25_Witness ==
    /\ ev.op = "UPDATE_TARGET" /\ ev.rate = "ok"
    /\ ev.ref # NoRef
    /\ heap[ev.ref].targetX = 0
    /\ before[ev.ref].targetX # 0
    /\ heap[ev.ref].pos.x # 0
    /\ heap[ev.ref].curDash < heap[ev.ref].maxDash

\* p is inside the walls of its room, 100 from every edge
InsideWalls(p) ==
    /\ 100 <= p.pos.x /\ p.pos.x <= RoomW(p.currentRoom) - 100
    /\ 100 <= p.pos.y /\ p.pos.y <= RoomH(p.currentRoom) - 100

\* velocities and tick lengths far beyond what the game produces
WildVels == {<<0, 0>>, <<-20000, 20000>>, <<20000, -20000>>}
WildTicks == {0, 60000}

\* C26: after the update step of a tick, every player of the room that was
\* ALIVE before it is at least 100 inside every wall of its room; and
\* Player.update would have left it there from any velocity, dashed or not,
\* and over any dt.
C26_InsideWalls ==
    /\ ev.op = "update" =>
          \A x \in Refs :
              (before[x].isAlive /\ InRoom(x, RoomAt(pc.k))) => InsideWalls(heap[x])
    /\ ev.op = "update" =>
          \A x \in Refs :
              (before[x].isAlive /\ InRoom(x, RoomAt(pc.k))) =>
                  \A v \in WildVels : \A d \in WildTicks :
                      LET p == [before[x] EXCEPT !.vel = [x |-> v[1], y |-> v[2]]]
                      IN  /\ InsideWalls(update(p, d, now, 0, 0))
                          /\ InsideWalls(update(useDash(p, now), d, now, 0, 0))

\* C26 witness: the update step has just stopped at the wall a player whose
\* movement had carried it past the wall
C26_Witness ==
    /\ ev.op = "update"
    /\ \E x \in Refs :
          /\ before[x].isAlive /\ InRoom(x, RoomAt(pc.k))
          /\ heap[x].pos.x = 100
          /\ before[x].pos.x + TDiv(heap[x].vel.x * dt, 1000) < 100

\* segment 0 of p's chain carries p's own position, angle and velocity
HeadOnPlayer(p) ==
    /\ p.parts[1].x = p.pos.x /\ p.parts[1].y = p.pos.y
    /\ p.parts[1].rot = p.angle
    /\ p.parts[1].vx = p.vel.x /\ p.parts[1].vy = p.vel.y

\* C27: after the update step of a tick, segment 0 of the chain of every player
\* of the room that was ALIVE before it has the player's position, angle and
\* velocity, so that the head position of its FISH record is the player's
\* clamped position.
C27_HeadOnPlayer ==
    ev.op = "update" =>
        \A x \in Refs :
            (before[x].isAlive /\ InRoom(x, RoomAt(pc.k))) => HeadOnPlayer(heap[x])

\* the speed of p is at most its maxSpeed
WithinMaxSpeed(p) ==
    p.vel.x * p.vel.x + p.vel.y * p.vel.y <= p.maxSpeed * p.maxSpeed

\* C28: after the update step of a tick, every player of the room that was
\* ALIVE before it moves at most at its maxSpeed, inside the dead zone around
\* its target as well as outside it: a dash lifts the speed above maxSpeed
\* only until the following tick.
C28_SpeedCapped ==
    ev.op = "update" =>
        \A x \in Refs :
            (before[x].isAlive /\ InRoom(x, RoomAt(pc.k))) => WithinMaxSpeed(heap[x])

\* ---------------------------------------------------------------------------
\* Claims about levels and the chain (SpecArena)
\* ---------------------------------------------------------------------------

\* the room whose GameRoom.update has just returned, after a refill step
UpdatedRoom == IF pc.ph = "send" THEN RoomAt(Len(RoomOrder)) ELSE RoomAt(pc.k - 1)

\* level, size and maxSpeed of p are the ones updateSize derives from its score
SizedByScore(p) ==
    /\ p.level = (p.score \div 100) + 1
    /\ p.size = 36 + (p.level - 1) * 3
    /\ p.maxSpeed = Max(80, 150 - (p.level - 1) * 5)

\* C29: when GameRoom.update returns, every player of the room has the level,
\* size and maxSpeed that follow from its score, also when it gained score
\* from food or a kill in this update and when it respawned in it.
C29_SizedByScore ==
    ev.op = "refill" =>
        \A x \in Refs : InRoom(x, UpdatedRoom) => SizedByScore(heap[x])

\* the segments of p's chain, by their index in player.parts, that the loops of
\* updateParts and _encodeFishElement treat as the break segment
breakSegments(p) == {i \in 1..(Len(p.parts) - 1) : i = p.breakPoint}

\* the bytes _encodeFishElement writes for segment i of p's chain, i >= 1
segmentBytes(p, i) == IF i # p.breakPoint THEN 1 ELSE 4 * 4

\* C30: the chain of every player has exactly one break segment, at an index
\* inside the chain; that segment is the one the tick integrates as a free
\* body, and the one non-head segment a FISH record writes as four f32 values
\* while the other nine take one angle byte each.
C30_OneBreakSegment ==
    \A x \in Held(players, roomPlayers) \cap Refs :
        LET p == heap[x]
            tail == 1..(Len(p.parts) - 1)
        IN  /\ p.breakPoint \in 0..(Len(p.parts) - 1)
            /\ Cardinality(breakSegments(p)) = 1
            /\ Cardinality({i \in tail : segmentBytes(p, i) = 16}) = 1
            /\ Cardinality({i \in tail : segmentBytes(p, i) = 1}) = 9

\* ---------------------------------------------------------------------------
\* Claims about the encoded frames and two runs of a tick (SpecRespawn)
\* ---------------------------------------------------------------------------

\* GameRoom.update(dt) of room r as one function of the state it starts from
\* and of what Math.random() returns in it: spots to spawn(), draw to the food
\* loop of checkCollisions, k to generateFood
roomUpdate(h, fl, rp, r, d, t, open, spots, draw, k) ==
    LET inRoom == {rp[r][i].ref : i \in 1..Len(rp[r])}
        h1 == [x \in Refs |->
                 IF x \in inRoom
                 THEN IF x \in DOMAIN spots
                      THEN update(h[x], d, t, spots[x][1], spots[x][2])
                      ELSE update(h[x], d, t, 0, 0)
                 ELSE h[x]]
        arr == aliveOf(h1, rp[r])
        st == pairSweep([heap |-> h1, sent |-> <<>>], arr, t, open)
        fs == foodSweep(st.heap, fl[r], arr, draw)
        left == IF FoodCount(fs.foods) < FoodFloor
                THEN FoodPush(fs.foods, k, FoodRefill)
                ELSE fs.foods
    IN  [heap |-> fs.heap, foods |-> [fl EXCEPT ![r] = left]]

\* bytes 1-2 of a SET_ELEMENTS frame: Date.now() & 0xFFFF
frameStamp(t) == t % 65536

\* the id and the head position _encodeFishElement writes for player p
fishHead(p) == [id |-> p.id, headX |-> p.parts[1].x, headY |-> p.parts[1].y]

\* the content of the frame encodeSetElements(room) builds at time t: stamp,
\* one FISH record per alive and spawned player, the first 100 food units
frameContent(r, h, rp, fl, t) ==
    LET refs == [i \in 1..Len(rp[r]) |-> rp[r][i].ref]
        shown == SelectSeq(refs, LAMBDA x : h[x].isAlive /\ h[x].isSpawned)
    IN  [stamp |-> frameStamp(t),
         fish |-> [i \in 1..Len(shown) |-> fishHead(h[shown[i]])],
         units |-> FoodSlice(fl[r], SnapshotFood)]

\* the frame of room r after this tick's GameRoom.update, in a run where
\* Math.random() returns spots, draw and k
frameAfter(r, spots, draw, k) ==
    LET st == roomUpdate(heap, foods, roomPlayers, r, dt, now, sockOpen, spots, draw, k)
    IN  frameContent(r, st.heap, roomPlayers, st.foods, now)

\* C31: two runs of a tick that start from the same players and food, have
\* received the same commands and use the same dt and clock build the same
\* SET_ELEMENTS frame for the room, whatever Math.random() returns in each.
C31_SameFrame ==
    pc.ph = "update" =>
        LET r == RoomAt(pc.k)
        IN  \A s1, s2 \in [Respawning(r) -> SpawnSpots] :
            \A d1, d2 \in FoodDraws : \A k1, k2 \in {3, 4} :
                frameAfter(r, s1, d1, k1) = frameAfter(r, s2, d2, k2)

\* Buffer.byteLength(player.name, 'utf8') for names of up to 16 UTF-16 units
NameBytes == {0, 16, 20, 21, 48}

\* the players encodeSetElements(room) encodes, in Map order
shownOf(r, h, rp) ==
    LET refs == [i \in 1..Len(rp[r]) |-> rp[r][i].ref]
    IN  SelectSeq(refs, LAMBDA x : h[x].isAlive /\ h[x].isSpawned)

\* the offset _encodeFishElement returns for player p, whose name has nb bytes
encodeFishEnd(off, p, nb) ==
    LET RECURSIVE Segs(_)
        Segs(i) == IF i > Len(p.parts) - 1 THEN 0 ELSE segmentBytes(p, i) + Segs(i + 1)
    IN  off + 1 + 4 + 3 + Min(nb, 20) + 1 + 6 + 4 + 4 + 2 + 1 + 1 + 1 + 1 + 1 + Segs(1)

\* the offset _encodeFoodElement returns
encodeFoodEnd(off) == off + 1 + 4 + 4 + 4 + 1 + 1 + 3

\* bufferSize with 16 bytes for a food record
bufferSize_SmallFood(h, shown, nb, nfood) ==
    LET RECURSIVE Sum(_)
        Sum(i) == IF i > Len(shown) THEN 0
                  ELSE 64 + nb[i] + Len(h[shown[i]].parts) * 5 + Sum(i + 1)
    IN  64 + Sum(1) + nfood * 16

\* the size of the buffer encodeSetElements allocates
bufferSize(h, shown, nb, nfood) ==
    LET RECURSIVE Sum(_)
        Sum(i) == IF i > Len(shown) THEN 0
                  ELSE 64 + nb[i] + Len(h[shown[i]].parts) * 5 + Sum(i + 1)
    IN  64 + Sum(1) + nfood * 20

\* the offset encodeSetElements has reached after the header and the first i
\* FISH records
RECURSIVE fishWritten(_, _, _, _)
fishWritten(h, shown, nb, i) ==
    IF i > 0 THEN encodeFishEnd(fishWritten(h, shown, nb, i - 1), h[shown[i]], nb[i])
    ELSE 1 + 2 + 1

\* the offset after the first j FOOD records as well: each call of
\* _encodeFoodElement advances it by the same amount
writtenUpTo(h, shown, nb, i, j) ==
    fishWritten(h, shown, nb, i) + j * (encodeFoodEnd(0) - 0)

\* the length of the frame encodeSetElements returns: buffer.slice(0, off),
\* which cannot be longer than the buffer
frameLength(h, shown, nb, nfood) ==
    Min(writtenUpTo(h, shown, nb, Len(shown), nfood), bufferSize(h, shown, nb, nfood))

\* the sizes of the records of a frame, counted from the record layouts
recordBytes(h, shown, nb, nfood) ==
    LET RECURSIVE Sum(_)
        Sum(i) == IF i > Len(shown) THEN 0
                  ELSE encodeFishEnd(0, h[shown[i]], nb[i]) + Sum(i + 1)
    IN  Sum(1) + nfood * encodeFoodEnd(0)

\* C32: when _sendUpdates or the timer of START has run the encoder, then for
\* every room, whatever the byte lengths of the names, every FISH
\* record and the first and last FOOD records encodeSetElements writes (the
\* offset only grows) end inside the buffer it allocated, and the frame it
\* returns is as long as what was written: 4 header bytes plus the player and
\* food records.
C32_WithinBuffer ==
    ev.op \in {"send", "timer"} => \A r \in RoomIds :
        LET shown == shownOf(r, heap, roomPlayers)
            nfood == Min(SnapshotFood, FoodCount(foods[r]))
        IN  \A nb \in [1..Len(shown) -> NameBytes] :
                LET size == bufferSize(heap, shown, nb, nfood)
                IN  /\ \A i \in 0..Len(shown) : fishWritten(heap, shown, nb, i) <= size
                    /\ \A j \in {0, 1, nfood - 1, nfood} \cap (0..nfood) :
                           writtenUpTo(heap, shown, nb, Len(shown), j) <= size
                    /\ frameLength(heap, shown, nb, nfood)
                           = 4 + recordBytes(heap, shown, nb, nfood)

\* C32 witness: the tick has just sent the frame of a room with two FISH
\* records and 100 FOOD records
C32_Witness ==
    /\ ev.op = "send"
    /\ \E n \in 1..Len(sent) :
          /\ sent[n].op = 48
          /\ Len(sent[n].body.fish) >= 2
          /\ sent[n].body.food = SnapshotFood
          /\ Len(shownOf(sent[n].body.room, heap, roomPlayers)) >= 2

\* the n bytes of v, least significant first (writeUInt16LE, writeUInt32LE)
RECURSIVE bytesLE(_, _)
bytesLE(v, n) == IF n = 0 THEN <<>> ELSE << v % 256 >> \o bytesLE(v \div 256, n - 1)

\* the packet handleStart sends: Buffer.alloc(19 + nameBuf.length), zero-filled,
\* with the fields written from its start
startPacket(playerId, colorcode, skincode, nameBuf) ==
    LET written == << 18 >> \o bytesLE(playerId % 65536, 2) \o bytesLE(colorcode, 4)
                   \o << skincode >> \o << 0, 0, 0 >> \o << Len(nameBuf) % 256 >>
                   \o nameBuf \o << 0 >> \o << 1 >>
    IN  [i \in 1..(19 + Len(nameBuf)) |-> IF i <= Len(written) THEN written[i] ELSE 0]

\* names of the START payload, as UTF-8 bytes ('Player' when the payload has none)
StartNames == {[i \in 1..n |-> 65] : n \in {1, 6, 16}}
StartColors == {0, 16711935}
StartSkins == {0, 17}

\* C33: the START-ack handleStart sends consists of the fields opcode 18, u16
\* uid, u32 color, u8 skin, three zero bytes, u8 nameLen, the name, 0x00, 0x01
\* and nothing else: it is 14 + nameLen bytes long and ends with 0x01.
C33_StartAckLayout ==
    (ev.op = "START" /\ \E n \in 1..Len(sent) : sent[n].op = 18) =>
        \A name \in StartNames : \A color \in StartColors : \A skin \in StartSkins :
            LET pk == startPacket(ev.conn, color, skin, name)
            IN  /\ Len(pk) = 14 + Len(name)
                /\ pk[1] = 18
                /\ pk[12] = Len(name)
                /\ pk[Len(pk)] = 1

\* a | b and a & b of two non-negative integers
RECURSIVE BitOr(_, _)
BitOr(a, b) ==
    IF a = 0 THEN b ELSE IF b = 0 THEN a
    ELSE 2 * BitOr(a \div 2, b \div 2) + (IF a % 2 = 1 \/ b % 2 = 1 THEN 1 ELSE 0)

\* v & 0xFF of a 32-bit two's complement integer v
LowByte(v) == v % 256

\* the team/level byte of a FISH record: (team & 0xFF) | ((level & 0x1F) << 3)
teamLevelByte(team, level) == BitOr(LowByte(team), (level % 32) * 8)

\* the values the Player constructor draws for team, and the levels of 5 bits
Teams == {1, -1}
PackedLevels == 1..31

\* C34: the team/level byte written for a player of a frame is a value in
\* 0..255 that determines both fields: whichever team the constructor drew for
\* the player, no other pair of a team and a level in 1..31 has the same byte.
C34_TeamLevelRecoverable ==
    ev.op \in {"send", "timer"} =>
        \A r \in RoomIds :
            LET shown == shownOf(r, heap, roomPlayers)
            IN  \A i \in 1..Len(shown) : \A team \in Teams :
                    LET level == heap[shown[i]].level
                        byte == teamLevelByte(team, level)
                    IN  /\ byte \in 0..255
                        /\ level \in PackedLevels =>
                              \A t2 \in Teams : \A l2 \in PackedLevels :
                                  teamLevelByte(t2, l2) = byte => (t2 = team /\ l2 = level)

\* ---------------------------------------------------------------------------
\* Claims about dash regeneration, deaths and score (SpecRegen, SpecArena)
\* ---------------------------------------------------------------------------

\* C35: in the update step of a tick a player that was ALIVE gains at most one
\* dash charge, whatever dt is; when its accumulator reaches 1.0 the charge is
\* incremented, capped at maxDash, and the accumulator restarts from 0 without
\* the excess; a player at maxDash keeps both; and between callbacks the
\* accumulator of every player is in [0, 1).
C35_RegenQuantized ==
    /\ ev.op = "update" =>
          \A x \in Refs :
              (before[x].isAlive /\ InRoom(x, RoomAt(pc.k))) =>
                  LET b == before[x]
                      p == heap[x]
                      acc == b.overDash + dt * DashRegenPerMs
                  IN  /\ p.curDash - b.curDash \in {0, 1}
                      /\ (b.curDash < b.maxDash /\ acc >= OverDashOne) =>
                            (p.curDash = Min(b.maxDash, b.curDash + 1) /\ p.overDash = 0)
                      /\ (b.curDash < b.maxDash /\ acc < OverDashOne) =>
                            (p.curDash = b.curDash /\ p.overDash = acc)
                      /\ b.curDash >= b.maxDash =>
                            (p.curDash = b.curDash /\ p.overDash = b.overDash)
                      /\ \A d \in WildTicks :
                            update(b, d, now, 0, 0).curDash - b.curDash \in {0, 1}
    /\ pc = Idle =>
          \A x \in Held(players, roomPlayers) \cap Refs :
              0 <= heap[x].overDash /\ heap[x].overDash < OverDashOne

\* C35 witness: the update step has just turned an accumulator that went past
\* 1.0 into one charge and an accumulator of 0
C35_Witness ==
    /\ ev.op = "update"
    /\ \E x \in Refs :
          /\ before[x].isAlive /\ InRoom(x, RoomAt(pc.k))
          /\ before[x].overDash > 0
          /\ before[x].overDash + dt * DashRegenPerMs > OverDashOne
          /\ heap[x].curDash = before[x].curDash + 1
          /\ heap[x].overDash = 0

\* the kills credited in the pair sweep that has just run
RECURSIVE KillsGained(_)
KillsGained(S) ==
    IF S = {} THEN 0
    ELSE LET x == CHOOSE y \in S : TRUE
         IN  (heap[x].kills - before[x].kills) + KillsGained(S \ {x})

\* C36: in the pair sweep of one Room.update the deaths counter of a player
\* rises by at most 1 and one kill is credited for every player that died, no
\* more; and the respawnTime of a DEAD player is not changed while it stays DEAD.
C36_DiesOncePerTick ==
    /\ ev.op = "pairs" =>
          /\ \A x \in Refs : heap[x].deaths - before[x].deaths <= 1
          /\ KillsGained(Refs) =
                Cardinality({x \in Refs : before[x].isAlive /\ ~heap[x].isAlive})
    /\ \A x \in Refs :
          (~before[x].isAlive /\ ~heap[x].isAlive /\ before[x].id = heap[x].id
             /\ before[x].id # 0) =>
              heap[x].respawnTime = before[x].respawnTime

\* slot x holds the same Player object before and after the step
SameObject(x) == heap[x].id # 0 /\ heap'[x].id = heap[x].id /\ x \in Held(players, roomPlayers)

\* C37: the score of a Player object never decreases, whatever step is taken
\* (tick, command, death, respawn); it rises only in the pair loop, by
\* 100 + level * 20 of a victim for every kill credited, and in the food loop,
\* by a multiple of 10.
C37_ScoreMonotone ==
    [][\A x \in Refs :
          SameObject(x) =>
              /\ heap'[x].score >= heap[x].score
              /\ heap'[x].score > heap[x].score =>
                    \/ /\ ev'.op = "pairs"
                       /\ heap'[x].kills > heap[x].kills
                       /\ \E v \in Refs \ {x} :
                             /\ heap[v].isAlive /\ ~heap'[v].isAlive
                             /\ heap'[x].score - heap[x].score
                                   = (heap'[x].kills - heap[x].kills) * (100 + heap[v].level * 20)
                    \/ /\ ev'.op = "food"
                       /\ x \in {alive[i] : i \in 1..Len(alive)}
                       /\ (heap'[x].score - heap[x].score) % 10 = 0
                       /\ heap'[x].kills = heap[x].kills]_vars

\* C37 witness: a player that had scored has just respawned, with its score
C37_Witness ==
    /\ ev.op = "update"
    /\ \E x \in Refs :
          /\ ~before[x].isAlive /\ heap[x].isAlive /\ before[x].id = heap[x].id
          /\ before[x].score > 0
          /\ heap[x].score = before[x].score
          /\ heap[x].deaths > 0

\* ---------------------------------------------------------------------------
\* Claims about the dash resource of a connection (SpecAgain, SpecArena)
\* ---------------------------------------------------------------------------

\* C38: the dash charge of the player of a connection rises only in the update
\* step of a tick (regeneration, or the respawn of a dead player), and the time
\* of its last dash never moves back: no command, START included, refills the
\* charge or clears the cooldown.
C38_NoDashFromCommands ==
    [][\A c \in Conns :
          (players[c] # NoRef /\ players'[c] # NoRef) =>
              LET p == heap[players[c]]
                  q == heap'[players'[c]]
              IN  /\ q.curDash > p.curDash => ev'.op = "update"
                  /\ q.lastDashTime >= p.lastDashTime]_vars

\* C39: an INPUT with the dash bit that reaches the server while the player of
\* the connection is DEAD is refused: useDash returns false and the player's
\* charge, velocity and lastDashTime stay as they were.
C39_NoDashWhileDead ==
    (ev.op = "INPUT" /\ ev.ref # NoRef /\ ~before[ev.ref].isAlive) =>
        /\ ev.dash # "ok"
        /\ heap[ev.ref].curDash = before[ev.ref].curDash
        /\ heap[ev.ref].vel = before[ev.ref].vel
        /\ heap[ev.ref].lastDashTime = before[ev.ref].lastDashTime

=============================================================================
